---- MODULE Spec2Model ----
(***************************************************************************)
(* Streaming chat completion: the server-side event-stream encoder         *)
(* (handleStreaming), the byte transport of the HTTP response body and the *)
(* client-side decoder (handleSSELine / consumeSSEStream) driven by the    *)
(* TextStreamingMessage component.                                         *)
(*                                                                         *)
(* Text is a sequence of Unicode code points, a byte chunk a sequence of   *)
(* numbers 0..255.  The literals below spell the program's string          *)
(* constants code point by code point.                                     *)
(***************************************************************************)
EXTENDS Integers, Sequences, FiniteSets, TLC

\* ------------------------------------------------------------------ bounds

\* The provider yields at most this many chunks in one request.
MaxChunks == 2

\* A MessageBinaryFormat has at most this many elements.
MaxElements == 2

\* ---------------------------------------------------------------- literals

\* "data: "
DataPrefix == <<100, 97, 116, 97, 58, 32>>
\* "type", "id", "content", "object"
K_type == <<116, 121, 112, 101>>
K_id == <<105, 100>>
K_content == <<99, 111, 110, 116, 101, 110, 116>>
K_object == <<111, 98, 106, 101, 99, 116>>
\* "chat_metadata", "content", "done", "chat"
V_chat_metadata == <<99, 104, 97, 116, 95, 109, 101, 116, 97, 100, 97, 116, 97>>
V_content == <<99, 111, 110, 116, 101, 110, 116>>
V_done == <<100, 111, 110, 101>>
V_chat == <<99, 104, 97, 116>>
\* "\n\n", the frame terminator
FrameEnd == <<10, 10>>

\* ------------------------------------------------------------ text helpers

\* undefined, and a string value: what process.env.X, a JSON member or a
\* session field holds.
Undefined == [def |-> FALSE, val |-> <<>>]
Str(t) == [def |-> TRUE, val |-> t]

\* JavaScript truthiness of such a value: defined and not "".
Truthy(v) == v.def /\ v.val # <<>>

RECURSIVE ConcatRange(_, _, _)
\* ss[lo] \o ... \o ss[hi], by halves.
ConcatRange(ss, lo, hi) ==
  IF lo > hi THEN <<>>
  ELSE IF lo = hi THEN ss[lo]
  ELSE LET mid == (lo + hi) \div 2 IN
    ConcatRange(ss, lo, mid) \o ConcatRange(ss, mid + 1, hi)

\* The concatenation of a sequence of sequences.
Concat(ss) == ConcatRange(ss, 1, Len(ss))

\* String.prototype.startsWith
StartsWith(s, p) == Len(s) >= Len(p) /\ SubSeq(s, 1, Len(p)) = p

\* String.prototype.slice(n)
Slice(s, n) == SubSeq(s, n + 1, Len(s))

\* The white space String.prototype.trim removes: tab, LF, CR, space.
IsSpace(c) == c \in {9, 10, 13, 32}

RECURSIVE TrimStart(_)
TrimStart(s) == IF s # <<>> /\ IsSpace(Head(s)) THEN TrimStart(Tail(s)) ELSE s

RECURSIVE TrimEnd(_)
TrimEnd(s) ==
  IF s # <<>> /\ IsSpace(s[Len(s)]) THEN TrimEnd(SubSeq(s, 1, Len(s) - 1)) ELSE s

\* String.prototype.trim
Trim(s) == TrimEnd(TrimStart(s))

\* Joining the pieces of a left and a right part: the last piece of the left
\* part continues in the first piece of the right part.
JoinPieces(l, r) ==
  SubSeq(l, 1, Len(l) - 1) \o <<l[Len(l)] \o r[1]>> \o SubSeq(r, 2, Len(r))

RECURSIVE SplitRange(_, _, _)
SplitRange(s, lo, hi) ==
  IF lo > hi THEN << <<>> >>
  ELSE IF lo = hi THEN (IF s[lo] = 10 THEN << <<>>, <<>> >> ELSE << <<s[lo]>> >>)
  ELSE LET mid == (lo + hi) \div 2 IN
    JoinPieces(SplitRange(s, lo, mid), SplitRange(s, mid + 1, hi))

\* text.split("\n"): one more piece than there are line feeds.
SplitLines(s) == SplitRange(s, 1, Len(s))

\* ------------------------------------------------------------------- UTF-8

\* TextEncoder.encode of one code point (code points below U+0800).
EncodeCodePoint(s, i) ==
  IF s[i] < 128 THEN <<s[i]>> ELSE <<192 + (s[i] \div 64), 128 + (s[i] % 64)>>

\* TextEncoder.encode
Utf8Encode(s) == Concat([i \in 1..Len(s) |-> EncodeCodePoint(s, i)])

IsLead2(b) == b >= 192 /\ b <= 223
IsContinuation(b) == b >= 128 /\ b <= 191

\* What the byte at i adds to the decoded text: itself (ASCII), the code
\* point of a two-byte sequence it leads, nothing when it is the continuation
\* of the lead before it or a lead still waiting for its continuation at the
\* end of the chunk, U+FFFD when it is malformed.
DecodeAt(bs, i) ==
  IF bs[i] < 128 THEN <<bs[i]>>
  ELSE IF IsLead2(bs[i]) THEN
    IF i = Len(bs) THEN <<>>
    ELSE IF IsContinuation(bs[i + 1])
      THEN <<(bs[i] - 192) * 64 + (bs[i + 1] - 128)>>
      ELSE <<65533>>
  ELSE IF IsContinuation(bs[i]) /\ i > 1 /\ IsLead2(bs[i - 1]) THEN <<>>
  ELSE <<65533>>

\* decoder.decode(value, {stream: true}): the lead byte of an unfinished code
\* point at the end of a chunk is kept for the next call.
Utf8DecodeStream(pending, chunk) ==
  LET bs == pending \o chunk IN
  [text |-> Concat([i \in 1..Len(bs) |-> DecodeAt(bs, i)]),
   pending |-> IF bs # <<>> /\ IsLead2(bs[Len(bs)]) THEN <<bs[Len(bs)]>> ELSE <<>>]

\* -------------------------------------------------------------------- JSON

\* JSON.stringify of one character of a string.
EscapeChar(s, i) ==
  IF s[i] = 34 THEN <<92, 34>>
  ELSE IF s[i] = 92 THEN <<92, 92>>
  ELSE IF s[i] = 10 THEN <<92, 110>>
  ELSE <<s[i]>>

EscapeString(s) == Concat([i \in 1..Len(s) |-> EscapeChar(s, i)])

\* JSON.stringify of a string value
JsonString(s) == <<34>> \o EscapeString(s) \o <<34>>

RECURSIVE JsonMembers(_)
JsonMembers(ms) ==
  IF ms = <<>> THEN <<>>
  ELSE JsonString(Head(ms)[1]) \o <<58>> \o JsonString(Head(ms)[2])
       \o (IF Len(ms) > 1 THEN <<44>> ELSE <<>>) \o JsonMembers(Tail(ms))

\* JSON.stringify of an object whose members (in insertion order) are
\* strings: ms is a sequence of <<key, value>>.
JsonStringify(ms) == <<123>> \o JsonMembers(ms) \o <<125>>

ParseFail == [ok |-> FALSE, val |-> <<>>, next |-> 0]

RECURSIVE ScanString(_, _, _)
\* The characters of a JSON string from position i (after the opening quote)
\* up to its closing quote, escapes resolved.
ScanString(s, i, acc) ==
  IF i > Len(s) THEN ParseFail
  ELSE IF s[i] = 34 THEN [ok |-> TRUE, val |-> acc, next |-> i + 1]
  ELSE IF s[i] = 92 THEN
    IF i + 1 > Len(s) THEN ParseFail
    ELSE IF s[i + 1] \in {34, 92} THEN ScanString(s, i + 2, Append(acc, s[i + 1]))
    ELSE IF s[i + 1] = 110 THEN ScanString(s, i + 2, Append(acc, 10))
    ELSE ParseFail
  ELSE IF s[i] < 32 THEN ParseFail
  ELSE ScanString(s, i + 1, Append(acc, s[i]))

ParseString(s, i) ==
  IF i <= Len(s) /\ s[i] = 34 THEN ScanString(s, i + 1, <<>>) ELSE ParseFail

RECURSIVE ParseMembers(_, _, _)
ParseMembers(s, i, ms) ==
  LET k == ParseString(s, i) IN
  IF ~k.ok \/ k.next > Len(s) \/ s[k.next] # 58 THEN ParseFail
  ELSE LET v == ParseString(s, k.next + 1) IN
    IF ~v.ok \/ v.next > Len(s) THEN ParseFail
    ELSE IF s[v.next] = 44
      THEN ParseMembers(s, v.next + 1, Append(ms, <<k.val, v.val>>))
    ELSE IF s[v.next] = 125 /\ v.next = Len(s)
      THEN [ok |-> TRUE, val |-> Append(ms, <<k.val, v.val>>), next |-> v.next + 1]
    ELSE ParseFail

\* JSON.parse, for the texts of the wire protocol: an object whose members
\* are strings.  ok is FALSE where JSON.parse throws a SyntaxError.
JsonParse(s) ==
  IF Len(s) < 2 \/ s[1] # 123 THEN ParseFail
  ELSE IF s[2] = 125 THEN
    IF Len(s) = 2 THEN [ok |-> TRUE, val |-> <<>>, next |-> 3] ELSE ParseFail
  ELSE ParseMembers(s, 2, <<>>)

\* data.key of a parsed object: the last member of that name, <<>> (falsy,
\* like undefined and "") when there is none.
Field(ms, key) ==
  LET idx == {i \in 1..Len(ms) : ms[i][1] = key} IN
  IF idx = {} THEN <<>>
  ELSE ms[CHOOSE i \in idx : \A j \in idx : j <= i][2]

\* ------------------------------------------------------------ wire frames

\* `data: ${json}\n\n`, as encoder.encode hands it to controller.enqueue
FrameBytes(json) == Utf8Encode(DataPrefix \o json \o FrameEnd)

\* JSON.stringify({type: "chat_metadata", id: activeChatId, object: "chat"})
ChatMetaJson(id) ==
  JsonStringify(<< <<K_type, V_chat_metadata>>, <<K_id, id>>, <<K_object, V_chat>> >>)

\* JSON.stringify({type: "content", content: chunk.content})
ContentJson(content) ==
  JsonStringify(<< <<K_type, V_content>>, <<K_content, content>> >>)

\* JSON.stringify({type: "done"})
DoneJson == JsonStringify(<< <<K_type, V_done>> >>)

\* --------------------------------------------------------------- provider

\* The text deltas a provider chunk may carry: "", "Hel", "lo!" and
\* e-acute followed by a line feed (two UTF-8 bytes, one JSON escape).
Deltas == {<<>>, <<72, 101, 108>>, <<108, 111, 33>>, <<233, 10>>}

\* What the lazy stream does when asked for its next value: yield a chunk, or
\* throw.  After the last event of the script the stream closes.
ProviderEvents ==
  {[kind |-> "chunk", content |-> d] : d \in Deltas}
    \cup {[kind |-> "throw", content |-> <<>>]}

RECURSIVE SeqsUpTo(_, _)
\* All sequences over S of length at most n.
SeqsUpTo(S, n) ==
  IF n = 0 THEN {<<>>}
  ELSE LET shorter == SeqsUpTo(S, n - 1) IN
    shorter \cup {Append(q, x) : q \in {r \in shorter : Len(r) = n - 1}, x \in S}

Scripts == SeqsUpTo(ProviderEvents, MaxChunks)

\* "c1", the identifier POST passes on, and "" (the guard of handleStreaming)
ChatIds == {<<>>, <<99, 49>>}

\* ------------------------------------------------------------------ state

VARIABLES
  script,        \* what the provider's lazy stream will do, event by event
  pIdx,          \* how many of its events handleStreaming has consumed
  activeChatId,  \* handleStreaming's parameter
  srvPc,         \* where handleStreaming's start(controller) stands
  fullResponse,  \* handleStreaming's running total
  enqueued,      \* the byte chunks given to controller.enqueue, in order
  streamState,   \* the response stream: "open", "closed" or "errored"
  addCalls,      \* the addMessageToChat calls made for the assistant turn
  persisted,     \* the assistant messages those calls stored
  mounted,       \* TextStreamingMessage is mounted
  everMounted,   \* ... or was
  hasCompletedRef, \* TextStreamingMessage's hasCompletedRef.current
  consumeStarts, \* how many times consumeSSEStream was called on the stream
  locked,        \* the stream is locked to a reader
  decodeState,   \* the first consumeSSEStream call: "none", "reading",
                 \* "resolved" or "rejected"
  rdPos,         \* the bytes of the stream read() has returned so far
  pendingBytes,  \* the TextDecoder's unfinished code point
  lines,         \* the lines of the current chunk not yet handled
  accumulated,   \* consumeSSEStream's running total
  result,        \* the value consumeSSEStream resolved with
  calls,         \* the component's callbacks invoked so far, in order
  hookPc,        \* useChat: where the turn handleSendMessage started stands
  chatHistory,   \* useChat's chatHistory
  isLoading,     \* useChat's isLoading
  isStreaming,   \* useChat's isStreaming
  completesHandled, \* the onComplete calls handleStreamingComplete has served
  currentChat,   \* useChat's currentChat: the SWR data, or undefined
  fetched,       \* the fetchAndCacheChatDetails calls made, in order
  recoveries,    \* the extractChatIdFromContent calls made: content, result
  handoff,       \* the streaming context holds a handoff for this chat
  inFlight,      \* handleSendMessage calls awaiting fetch
  handedStreams, \* the response streams handed to chatHistory entries
  sends,         \* handleSendMessage calls that got past the guard
  postEnv,       \* process.env: AI_PROVIDER and the three API keys
  postReq,       \* POST's inputs: the request body, the session, the quota
  postPc,        \* where POST stands
  postProvider,  \* POST's provider, undefined until it is resolved
  postAvailable, \* POST's available
  postChat,      \* the stored chat the request names
  postMessages,  \* POST's messages array
  storageCalls,  \* the createChat and addMessageToChat calls POST has made
  providerCalls, \* the createCompletion / createStreamingCompletion calls
  postResponse,  \* what POST returned
  adProvider,    \* createCompletion / createStreamingCompletion: provider
  adMode,        \* "complete" (createCompletion) or "stream"
  adConfig,      \* their config parameter
  adEvents,      \* what the provider's native stream will deliver
  adIdx,         \* how many of its events the adapter has consumed
  adPc,          \* where the adapter stands
  adRequests,    \* the provider-native requests issued
  adYielded,     \* the StreamChunks yielded so far
  nmMessages,    \* the ChatMessage[] an adapter is called with
  nmProvider,    \* the provider whose adapter it is
  nmPc,          \* where the adapter's normalisation stands
  nmShape,       \* the messages in the shape the provider's API takes
  requestsMade,  \* the POST requests the user has made in the window
  getSession,    \* GET /api/chats/[chatId]: session.user.id
  getChatId,     \* ... its chatId parameter
  getStored,     \* ... what getChatById finds for it
  getPc,         \* ... where the handler stands
  getResponse,   \* ... what it returned
  dbExists,      \* the chats table has the row of the chat
  dbMessages,    \* the row's messages column
  addArgs,       \* the concurrent addMessageToChat calls: role, content
  addPc,         \* where each of them stands
  addLocal       \* each call's local `messages`

srvVars == <<script, pIdx, activeChatId, srvPc, fullResponse, enqueued,
             streamState, addCalls, persisted>>
cmpVars == <<mounted, everMounted, hasCompletedRef, consumeStarts>>
decVars == <<locked, decodeState, rdPos, pendingBytes, lines, accumulated,
             result>>
cliVars == <<cmpVars, decVars, calls>>
turnVars == <<handoff, inFlight, handedStreams, sends>>
hookVars == <<hookPc, chatHistory, isLoading, isStreaming, completesHandled,
              currentChat, fetched, recoveries, turnVars>>
\* The state around the streaming pipeline.
postVars == <<postEnv, postReq, postPc, postProvider, postAvailable, postChat,
              postMessages, storageCalls, providerCalls, postResponse>>
\* The server side around handleStreaming.
adVars == <<adProvider, adMode, adConfig, adEvents, adIdx, adPc, adRequests,
            adYielded>>
nmVars == <<nmMessages, nmProvider, nmPc, nmShape>>
getVars == <<getSession, getChatId, getStored, getPc, getResponse>>
dbVars == <<dbExists, dbMessages, addArgs, addPc, addLocal>>
extVars == <<requestsMade, getVars, dbVars>>
backVars == <<postVars, adVars, nmVars, extVars>>
outerVars == <<hookVars, backVars>>
vars == <<srvVars, cliVars, outerVars>>

\* No GET request, no addMessageToChat call under way, no request counted.
ExtIdle ==
  /\ requestsMade = 0
  /\ getSession = [def |-> FALSE, val |-> <<>>]
  /\ getChatId = <<>>
  /\ getStored = [exists |-> FALSE]
  /\ getPc = "idle"
  /\ getResponse = [kind |-> "none"]
  /\ dbExists = FALSE
  /\ dbMessages = <<>>
  /\ addArgs = <<>>
  /\ addPc = <<>>
  /\ addLocal = <<>>

\* ------------------------------------------------- server: handleStreaming

\* The request has reached handleStreaming; nothing has run yet.
SrvInit ==
  /\ pIdx = 0
  /\ srvPc = "start"
  /\ fullResponse = <<>>
  /\ enqueued = <<>>
  /\ streamState = "open"
  /\ addCalls = <<>>
  /\ persisted = <<>>

\* A running total that keeps the latest delta only.
AppendDeltaOverwrite(total, delta) == delta

\* fullResponse += chunk.content
AppendDelta(total, delta) == total \o delta

\* A content frame for every chunk, empty ones included.
ChunkFramesNoFilter(content) == <<FrameBytes(ContentJson(content))>>

\* if (chunk.content) { ... controller.enqueue(content frame) }: the frames
\* one provider chunk puts on the stream.
ChunkFrames(content) ==
  IF content # <<>> THEN <<FrameBytes(ContentJson(content))>> ELSE <<>>

\* start(controller), up to the first await: the metadata frame.
SrvStart ==
  /\ srvPc = "start"
  /\ enqueued' = Append(enqueued, FrameBytes(ChatMetaJson(activeChatId)))
  /\ srvPc' = "loop"
  /\ UNCHANGED <<script, pIdx, activeChatId, fullResponse, streamState,
                 addCalls, persisted>>
  /\ UNCHANGED <<cliVars, outerVars>>

\* One turn of `for await (const chunk of stream)` that gets a chunk.
SrvChunk ==
  /\ srvPc = "loop"
  /\ pIdx < Len(script)
  /\ script[pIdx + 1].kind = "chunk"
  /\ LET content == script[pIdx + 1].content IN
       /\ fullResponse' = IF content # <<>> THEN AppendDelta(fullResponse, content)
                          ELSE fullResponse
       /\ enqueued' = enqueued \o ChunkFrames(content)
  /\ pIdx' = pIdx + 1
  /\ UNCHANGED <<script, activeChatId, srvPc, streamState, addCalls, persisted>>
  /\ UNCHANGED <<cliVars, outerVars>>

\* controller.enqueue(done frame); controller.close()
EnqueueDoneAndClose ==
  /\ enqueued' = Append(enqueued, FrameBytes(DoneJson))
  /\ streamState' = "closed"
  /\ srvPc' = "finished"

\* A catch block that ends the stream as if it had succeeded.
CatchErrorSendsDone == EnqueueDoneAndClose

\* catch (error) { controller.error(error) }
CatchError ==
  /\ streamState' = "errored"
  /\ srvPc' = "failed"
  /\ UNCHANGED enqueued

\* The lazy stream throws.
SrvThrow ==
  /\ srvPc = "loop"
  /\ pIdx < Len(script)
  /\ script[pIdx + 1].kind = "throw"
  /\ pIdx' = pIdx + 1
  /\ CatchError
  /\ UNCHANGED <<script, activeChatId, fullResponse, addCalls, persisted>>
  /\ UNCHANGED <<cliVars, outerVars>>

\* A stream end that calls addMessageToChat without awaiting it: done and
\* close follow at once.
SrvStreamEndNoAwait ==
  /\ srvPc = "loop"
  /\ pIdx = Len(script)
  /\ addCalls' = IF activeChatId # <<>>
                   THEN Append(addCalls,
                          [chatId |-> activeChatId, role |-> "assistant",
                           content |-> fullResponse])
                   ELSE addCalls
  /\ EnqueueDoneAndClose
  /\ UNCHANGED <<script, pIdx, activeChatId, fullResponse, persisted>>
  /\ UNCHANGED <<cliVars, outerVars>>

\* The lazy stream has closed: addMessageToChat is called when there is an
\* activeChatId, and awaited; without one the stream is finished at once.
SrvStreamEnd ==
  /\ srvPc = "loop"
  /\ pIdx = Len(script)
  /\ IF activeChatId # <<>>
       THEN /\ addCalls' = Append(addCalls,
                  [chatId |-> activeChatId, role |-> "assistant",
                   content |-> fullResponse])
            /\ srvPc' = "persisting"
            /\ UNCHANGED <<enqueued, streamState>>
       ELSE /\ EnqueueDoneAndClose
            /\ UNCHANGED addCalls
  /\ UNCHANGED <<script, pIdx, activeChatId, fullResponse, persisted>>
  /\ UNCHANGED <<cliVars, outerVars>>

\* addMessageToChat resolves: the message is stored, then done and close.
SrvPersistOk ==
  /\ srvPc = "persisting"
  /\ persisted' = Append(persisted, addCalls[Len(addCalls)].content)
  /\ EnqueueDoneAndClose
  /\ UNCHANGED <<script, pIdx, activeChatId, fullResponse, addCalls>>
  /\ UNCHANGED <<cliVars, outerVars>>

\* addMessageToChat throws (no such chat, or the update fails).
SrvPersistFail ==
  /\ srvPc = "persisting"
  /\ CatchError
  /\ UNCHANGED <<script, pIdx, activeChatId, fullResponse, addCalls, persisted>>
  /\ UNCHANGED <<cliVars, outerVars>>

Server ==
  \/ SrvStart
  \/ SrvChunk
  \/ SrvThrow
  \/ SrvStreamEnd
  \/ SrvPersistOk
  \/ SrvPersistFail

\* ------------------------------------------------ client: handleSSELine

NoCallback == [cb |-> "none", arg |-> <<>>]

\* A fallback that shows an unparseable payload as raw text.
OnParseErrorRawText(jsonStr) == [cb |-> "onContent", arg |-> jsonStr]

\* What the try block does with a payload JSON.parse rejected: the catch
\* skips the line.
OnParseError(jsonStr) == NoCallback

\* A dispatch that forwards every chat_metadata frame, with or without id.
handleSSELineNoIdCheck(line) ==
  IF ~StartsWith(line, DataPrefix) THEN NoCallback
  ELSE LET jsonStr == Trim(Slice(line, 6)) IN
    IF jsonStr = <<>> THEN NoCallback
    ELSE LET data == JsonParse(jsonStr) IN
      IF ~data.ok THEN OnParseError(jsonStr)
      ELSE IF Field(data.val, K_type) = V_chat_metadata
        THEN [cb |-> "onChatData", arg |-> Field(data.val, K_id)]
      ELSE IF Field(data.val, K_type) = V_content /\ Field(data.val, K_content) # <<>>
        THEN [cb |-> "onContent", arg |-> Field(data.val, K_content)]
      ELSE NoCallback

\* handleSSELine: the callback one line invokes, and its argument.
handleSSELine(line) ==
  IF ~StartsWith(line, DataPrefix) THEN NoCallback
  ELSE LET jsonStr == Trim(Slice(line, 6)) IN
    IF jsonStr = <<>> THEN NoCallback
    ELSE LET data == JsonParse(jsonStr) IN
      IF ~data.ok THEN OnParseError(jsonStr)
      ELSE IF Field(data.val, K_type) = V_chat_metadata /\ Field(data.val, K_id) # <<>>
        THEN [cb |-> "onChatData", arg |-> Field(data.val, K_id)]
      ELSE IF Field(data.val, K_type) = V_content /\ Field(data.val, K_content) # <<>>
        THEN [cb |-> "onContent", arg |-> Field(data.val, K_content)]
      ELSE NoCallback

\* accumulated += content
Accumulate(total, content) == total \o content

\* A callback that is handed the delta instead of the running total.
ShownContentDelta(total, content) == content

\* callbacks.onContent(accumulated): what the component is shown.
ShownContent(total, content) == total

\* --------------------------------------------- client: consumeSSEStream

\* The bytes of the response body, in the order they were enqueued.
Wire == Concat(enqueued)

\* No component yet, nothing read.
ClientInit ==
  /\ mounted = FALSE
  /\ everMounted = FALSE
  /\ hasCompletedRef = FALSE
  /\ consumeStarts = 0
  /\ locked = FALSE
  /\ decodeState = "none"
  /\ rdPos = 0
  /\ pendingBytes = <<>>
  /\ lines = <<>>
  /\ accumulated = <<>>
  /\ result = <<>>
  /\ calls = <<>>

\* consumeSSEStream up to its first await: getReader() locks the stream.
StartConsume ==
  /\ consumeStarts' = consumeStarts + 1
  /\ locked' = TRUE
  /\ decodeState' = "reading"
  /\ accumulated' = <<>>
  /\ pendingBytes' = <<>>
  /\ UNCHANGED <<rdPos, lines, result>>

\* .then((finalContent) => ...): onComplete unless already completed.
ThenCalls(cs, finalContent) ==
  IF hasCompletedRef THEN cs
  ELSE Append(cs, [cb |-> "onComplete", arg |-> finalContent])

\* A handler that completes the turn with what had been accumulated.
CatchContentPartial(total) == total

\* The content the .catch handler completes the turn with: onComplete("").
CatchContent(total) == <<>>

\* .catch((error) => ...): onError, then onComplete unless already completed.
CatchCalls(cs, total) ==
  LET reported == Append(cs, [cb |-> "onError", arg |-> <<>>]) IN
  IF hasCompletedRef THEN reported
  ELSE Append(reported, [cb |-> "onComplete", arg |-> CatchContent(total)])

\* read() resolves with the next n bytes: they are decoded and split.
ReadChunk ==
  /\ decodeState = "reading"
  /\ lines = <<>>
  /\ \E n \in 1..(Len(Wire) - rdPos) :
       LET decoded == Utf8DecodeStream(pendingBytes, SubSeq(Wire, rdPos + 1, rdPos + n))
       IN /\ rdPos' = rdPos + n
          /\ pendingBytes' = decoded.pending
          /\ lines' = SplitLines(decoded.text)
  /\ UNCHANGED <<srvVars, outerVars, cmpVars, locked, decodeState, accumulated, result, calls>>

\* One turn of `for (const line of text.split("\n"))`.
HandleLine ==
  /\ decodeState = "reading"
  /\ lines # <<>>
  /\ LET r == handleSSELine(Head(lines)) IN
       CASE r.cb = "onContent" ->
              /\ accumulated' = Accumulate(accumulated, r.arg)
              /\ calls' = Append(calls,
                   [cb |-> "onContent",
                    arg |-> ShownContent(Accumulate(accumulated, r.arg), r.arg)])
         [] r.cb = "onChatData" ->
              /\ calls' = Append(calls, r)
              /\ UNCHANGED accumulated
         [] OTHER -> UNCHANGED <<accumulated, calls>>
  /\ lines' = Tail(lines)
  /\ UNCHANGED <<srvVars, outerVars, cmpVars, locked, decodeState, rdPos, pendingBytes, result>>

\* The byte offset at which the k-th enqueued chunk ends.
EndOffset(k) == Len(Concat(SubSeq(enqueued, 1, k)))

\* A loop that also stops once a done frame has been read.
ReadReportsDoneOrDoneFrame ==
  \/ streamState = "closed" /\ rdPos = Len(Wire)
  \/ \E k \in 1..Len(enqueued) :
       enqueued[k] = FrameBytes(DoneJson) /\ rdPos >= EndOffset(k)

\* const { done } = await reader.read() with done true: the stream is closed
\* and every byte of it has been read.
ReadReportsDone == streamState = "closed" /\ rdPos = Len(Wire)

\* read() reports end-of-stream: break, releaseLock(), return accumulated;
\* the component's .then runs.
ReadDone ==
  /\ decodeState = "reading"
  /\ lines = <<>>
  /\ ReadReportsDone
  /\ locked' = FALSE
  /\ decodeState' = "resolved"
  /\ result' = accumulated
  /\ calls' = ThenCalls(calls, accumulated)
  /\ hasCompletedRef' = TRUE
  /\ UNCHANGED <<srvVars, outerVars, mounted, everMounted, consumeStarts, rdPos,
                 pendingBytes, lines, accumulated>>

\* read() rejects (the stream is errored): releaseLock() in the finally
\* block; the component's .catch runs.
ReadError ==
  /\ decodeState = "reading"
  /\ lines = <<>>
  /\ streamState = "errored"
  /\ locked' = FALSE
  /\ decodeState' = "rejected"
  /\ calls' = CatchCalls(calls, accumulated)
  /\ hasCompletedRef' = TRUE
  /\ UNCHANGED <<srvVars, outerVars, mounted, everMounted, consumeStarts, rdPos,
                 pendingBytes, lines, accumulated, result>>

\* ------------------------------------- client: TextStreamingMessage

\* The component mounts with the response body as its stream; its effect
\* runs for the first time.
Mount ==
  /\ ~everMounted
  /\ srvPc # "start"
  /\ mounted' = TRUE
  /\ everMounted' = TRUE
  /\ StartConsume
  /\ UNCHANGED <<srvVars, outerVars, hasCompletedRef, calls>>

\* ChatMessages renders again while the message is mounted: onChunk and
\* onError are new functions, so the effect runs again.  Unless the ref says
\* completed it calls consumeSSEStream again; getReader() on the locked
\* stream throws, and the .catch of that call runs.
Rerender ==
  /\ mounted
  /\ lines = <<>>
  /\ ~hasCompletedRef
  /\ IF locked
       THEN /\ consumeStarts' = consumeStarts + 1
            /\ calls' = CatchCalls(calls, accumulated)
            /\ hasCompletedRef' = TRUE
            /\ UNCHANGED decVars
       ELSE /\ StartConsume
            /\ UNCHANGED <<hasCompletedRef, calls>>
  /\ UNCHANGED <<srvVars, outerVars, mounted, everMounted>>

\* The message is unmounted (navigation away, or the entry stops being the
\* streaming one).  The effect returns no cleanup function.
Unmount ==
  /\ mounted
  /\ lines = <<>>
  /\ mounted' = FALSE
  /\ UNCHANGED <<srvVars, outerVars, everMounted, hasCompletedRef, consumeStarts, decVars, calls>>

\* ------------------------------------------- client: chat id recovery

\* JavaScript values as extractChatIdFromContent sees them: a string (its
\* text), a number, null, undefined, an array (its elements) and an object
\* (its keys in insertion order, keys[i] naming items[i]).
StringValue(t) == [kind |-> "string", text |-> t, keys |-> <<>>, items |-> <<>>]
NumberValue == [kind |-> "number", text |-> <<>>, keys |-> <<>>, items |-> <<>>]
NullValue == [kind |-> "null", text |-> <<>>, keys |-> <<>>, items |-> <<>>]
UndefinedValue ==
  [kind |-> "undefined", text |-> <<>>, keys |-> <<>>, items |-> <<>>]
ArrayValue(items) ==
  [kind |-> "array", text |-> <<>>, keys |-> <<>>, items |-> items]
ObjectValue(keys, items) ==
  [kind |-> "object", text |-> <<>>, keys |-> keys, items |-> items]

\* record.key: the member of an object, undefined where there is none (and
\* on an array, which has neither a chatId nor an id).
Member(obj, key) ==
  IF obj.kind = "object" /\ \E i \in 1..Len(obj.keys) : obj.keys[i] = key
    THEN obj.items[CHOOSE i \in 1..Len(obj.keys) : obj.keys[i] = key]
    ELSE UndefinedValue

\* "hello-world"
HelloWorld == <<104, 101, 108, 108, 111, 45, 119, 111, 114, 108, 100>>

\* An acceptance test that asks for no more than a length over 10.
isValidChatIdOver10(id) == id # HelloWorld /\ Len(id) > 10

\* An acceptance test whose hyphen clause decides: an id with a hyphen has
\* to be longer than 20.
isValidChatIdHyphenDecides(id) ==
  /\ id # HelloWorld
  /\ Len(id) > 10
  /\ IF \E i \in 1..Len(id) : id[i] = 45 THEN Len(id) > 20 ELSE Len(id) > 15

\* isValidChatId(id)
isValidChatId(id) ==
  IF id = HelloWorld \/ Len(id) <= 10 THEN FALSE
  ELSE \/ (\E i \in 1..Len(id) : id[i] = 45) /\ Len(id) > 20
       \/ Len(id) > 15

\* A member test that takes any non-empty string.
AcceptableUnvalidated(v) == v.kind = "string" /\ v.text # <<>>

\* record.x && typeof record.x === "string" && isValidChatId(record.x)
Acceptable(v) == v.kind = "string" /\ v.text # <<>> /\ isValidChatId(v.text)

\* A node's own identifier with id preferred to chatId.
NodeIdPreferringId(record) ==
  IF Acceptable(Member(record, "id")) THEN Str(Member(record, "id").text)
  ELSE IF Acceptable(Member(record, "chatId"))
    THEN Str(Member(record, "chatId").text)
  ELSE Undefined

\* The two ifs of search on record.chatId and record.id: what foundChatId
\* is set to by the node itself.
NodeId(record) ==
  IF Acceptable(Member(record, "chatId"))
    THEN Str(Member(record, "chatId").text)
  ELSE IF Acceptable(Member(record, "id")) THEN Str(Member(record, "id").text)
  ELSE Undefined

RECURSIVE search(_, _)
RECURSIVE forEachSearch(_, _, _)
\* search(obj) with foundChatId = found before the call: foundChatId after
\* it.
search(found, obj) ==
  IF Truthy(found) \/ obj.kind \notin {"array", "object"} THEN found
  ELSE IF Truthy(NodeId(obj)) THEN NodeId(obj)
  ELSE forEachSearch(found, obj.items, 1)

\* obj.forEach(search) and Object.values(record).forEach(search), from
\* element i on.
forEachSearch(found, items, i) ==
  IF i > Len(items) THEN found
  ELSE forEachSearch(search(found, items[i]), items, i + 1)

\* extractChatIdFromContent(content): content is an array value.
extractChatIdFromContent(content) == forEachSearch(Undefined, content.items, 1)

\* ------------------------------------------------------ client: useChat

\* "message"
K_message == <<109, 101, 115, 115, 97, 103, 101>>
\* "error"
K_error == <<101, 114, 114, 111, 114>>
\* parseErrorResponse's defaultMessage, also the catch block's fallback
DefaultMessage ==
  <<83, 111, 114, 114, 121, 44, 32, 116, 104, 101, 114, 101, 32, 119, 97,
    115, 32, 97, 110, 32, 101, 114, 114, 111, 114, 32, 112, 114, 111, 99,
    101, 115, 115, 105, 110, 103, 32, 121, 111, 117, 114, 32, 109, 101,
    115, 115, 97, 103, 101, 46, 32, 80, 108, 101, 97, 115, 101, 32, 116,
    114, 121, 32, 97, 103, 97, 105, 110, 46>>
\* parseErrorResponse's rateLimitMessage
RateLimitMessage ==
  <<89, 111, 117, 32, 104, 97, 118, 101, 32, 101, 120, 99, 101, 101, 100,
    101, 100, 32, 121, 111, 117, 114, 32, 109, 97, 120, 105, 109, 117, 109,
    32, 110, 117, 109, 98, 101, 114, 32, 111, 102, 32, 109, 101, 115, 115,
    97, 103, 101, 115, 32, 102, 111, 114, 32, 116, 104, 101, 32, 100, 97,
    121, 46, 32, 80, 108, 101, 97, 115, 101, 32, 116, 114, 121, 32, 97,
    103, 97, 105, 110, 32, 108, 97, 116, 101, 114, 46>>
\* "No response body for streaming"
NoBodyMessage ==
  <<78, 111, 32, 114, 101, 115, 112, 111, 110, 115, 101, 32, 98, 111, 100,
    121, 32, 102, 111, 114, 32, 115, 116, 114, 101, 97, 109, 105, 110, 103>>
\* "Failed to fetch", the message of the TypeError fetch rejects with
FetchFailedMessage ==
  <<70, 97, 105, 108, 101, 100, 32, 116, 111, 32, 102, 101, 116, 99, 104>>
\* "Sign in", a message member of an error body
SignInMessage == <<83, 105, 103, 110, 32, 105, 110>>
\* "not configured", an error member of an error body
NotConfiguredText ==
  <<110, 111, 116, 32, 99, 111, 110, 102, 105, 103, 117, 114, 101, 100>>
\* "hi", what the user typed
UserMessage == <<104, 105>>

\* parseErrorResponse: errorData.message when the body parses and has one,
\* the rate limit message for status 429, the default message otherwise.
parseErrorResponse(status, body) ==
  LET errorData == JsonParse(body) IN
  IF errorData.ok /\ Field(errorData.val, K_message) # <<>>
    THEN Field(errorData.val, K_message)
  ELSE IF status = 429 THEN RateLimitMessage
  ELSE DefaultMessage

\* Responses with !response.ok: a status and the text of the body.
ErrorResponses ==
  { [status |-> 401, body |-> JsonStringify(<< <<K_message, SignInMessage>> >>)],
    [status |-> 429, body |-> <<60>>],
    [status |-> 429, body |-> JsonStringify(<< <<K_error, NotConfiguredText>> >>)],
    [status |-> 400, body |-> JsonStringify(<< <<K_error, NotConfiguredText>> >>)],
    [status |-> 500, body |-> <<>>] }

\* Nothing sent yet.
\* No handoff, no request under way, no stream handed out.
TurnIdle ==
  /\ handoff = FALSE
  /\ inFlight = 0
  /\ handedStreams = <<>>
  /\ sends = 0

HookInit ==
  /\ TurnIdle
  /\ hookPc = "idle"
  /\ chatHistory = <<>>
  /\ isLoading = FALSE
  /\ isStreaming = FALSE
  /\ completesHandled = 0
  /\ currentChat = Undefined
  /\ fetched = <<>>
  /\ recoveries = <<>>

\* handleSendMessage up to `await fetch`: the user entry is appended.
HandleSendMessage ==
  /\ hookPc = "idle"
  /\ ~isLoading
  /\ isLoading' = TRUE
  /\ chatHistory' = Append(chatHistory,
       [type |-> "user", content |-> UserMessage, isStreaming |-> FALSE])
  /\ hookPc' = "fetching"
  /\ UNCHANGED <<srvVars, backVars, cliVars, isStreaming, completesHandled,
                 currentChat, fetched, recoveries, turnVars>>

\* catch (error): an assistant entry with the error's message.
CatchSend(errorMessage) ==
  /\ chatHistory' = Append(chatHistory,
       [type |-> "assistant", content |-> errorMessage, isStreaming |-> FALSE])
  /\ isLoading' = FALSE
  /\ hookPc' = "failed"
  /\ UNCHANGED <<srvVars, backVars, cliVars, isStreaming, completesHandled,
                 currentChat, fetched, recoveries>>

\* fetch resolves with !response.ok.
FetchRejected ==
  /\ hookPc = "fetching"
  /\ \E r \in ErrorResponses : CatchSend(parseErrorResponse(r.status, r.body))
  /\ UNCHANGED turnVars

\* fetch rejects (the network is down).
FetchThrows ==
  /\ hookPc = "fetching"
  /\ CatchSend(FetchFailedMessage)
  /\ UNCHANGED turnVars

\* fetch resolves with an ok response that has no body.
FetchNoBody ==
  /\ hookPc = "fetching"
  /\ CatchSend(NoBodyMessage)
  /\ UNCHANGED turnVars

\* fetch resolves with an ok response: the streaming entry is appended,
\* ChatMessages mounts TextStreamingMessage on response.body and its effect
\* calls consumeSSEStream.
FetchOk ==
  /\ hookPc = "fetching"
  /\ ~everMounted
  /\ isStreaming' = TRUE
  /\ chatHistory' = Append(chatHistory,
       [type |-> "assistant", content |-> <<>>, isStreaming |-> TRUE])
  /\ hookPc' = "streaming"
  /\ mounted' = TRUE
  /\ everMounted' = TRUE
  /\ StartConsume
  /\ UNCHANGED <<srvVars, backVars, hasCompletedRef, calls, isLoading,
                 completesHandled, currentChat, fetched, recoveries, turnVars>>

\* The arguments of the onComplete calls so far: onComplete is
\* handleStreamingComplete.
OnCompleteArgs ==
  LET got == SelectSeq(calls, LAMBDA c : c.cb = "onComplete")
  IN [i \in 1..Len(got) |-> got[i].arg]

\* useChat's chatId parameter: "c1"
RouteChatId == <<99, 49>>

\* if (!currentChat && finalContent && Array.isArray(finalContent)): an
\* array is truthy, a string is no array.
RecoversAlways(value) == value.kind = "array"

\* if (!currentChat && finalContent && Array.isArray(finalContent))
Recovers(value) == ~currentChat.def /\ value.kind = "array"

\* handleStreamingComplete(finalContent), finalContent being the JavaScript
\* value `value` and `content` as a history entry holds it: the chat's
\* details are fetched, an identifier is recovered from an array when no
\* current chat is known and its details fetched too, and the last entry,
\* when it is the streaming one, gets the final content and stops streaming.
StreamingComplete(value, content) ==
  /\ LET last == Len(chatHistory)
     IN IF last >= 1 /\ chatHistory[last].isStreaming
          THEN /\ chatHistory' = [chatHistory EXCEPT ![last] =
                    [type |-> chatHistory[last].type,
                     content |-> content,
                     isStreaming |-> FALSE]]
               /\ mounted' = FALSE
          ELSE UNCHANGED <<chatHistory, mounted>>
  /\ LET newChatId == extractChatIdFromContent(value)
     IN IF Recovers(value)
          THEN /\ recoveries' = Append(recoveries,
                    [content |-> value, result |-> newChatId])
               /\ fetched' = Append(fetched, RouteChatId)
                    \o (IF Truthy(newChatId) THEN <<newChatId.val>> ELSE <<>>)
          ELSE /\ recoveries' = recoveries
               /\ fetched' = Append(fetched, RouteChatId)
  /\ isStreaming' = FALSE
  /\ isLoading' = FALSE
  /\ hookPc' = "settled"
  /\ UNCHANGED <<srvVars, backVars, everMounted, hasCompletedRef,
                 consumeStarts, decVars, calls, currentChat>>

\* TextStreamingMessage's onComplete is handleStreamingComplete: each call
\* made is served, with the text it was given.
HandleStreamingComplete ==
  /\ completesHandled < Len(OnCompleteArgs)
  /\ LET finalContent == OnCompleteArgs[completesHandled + 1]
     IN StreamingComplete(StringValue(finalContent), finalContent)
  /\ completesHandled' = completesHandled + 1
  /\ UNCHANGED turnVars

\* The contents handleStreamingComplete is given as a MessageBinaryFormat.
\* The identifiers in them: letters only or with one hyphen, of the lengths
\* around the thresholds, and the placeholder.
Letters(n) == [i \in 1..n |-> 97]
\* "short"
Short == <<115, 104, 111, 114, 116>>
\* "a1b2c3d4-e5f6-7890-aaaa-bbbbccccdddd"
Uuid ==
  <<97, 49, 98, 50, 99, 51, 100, 52, 45, 101, 53, 102, 54, 45, 55, 56, 57,
    48, 45, 97, 97, 97, 97, 45, 98, 98, 98, 98, 99, 99, 99, 99, 100, 100,
    100, 100>>
Hyphenated(n) == [i \in 1..n |-> IF i = 2 THEN 45 ELSE 97]
IdTexts ==
  {Letters(n) : n \in {0, 10, 11, 15, 16, 21}}
    \cup {Hyphenated(n) : n \in {10, 11, 15, 16, 20, 21}}
    \cup {HelloWorld, Short, Uuid}

\* Objects with a chatId, an id, both or neither, over an identifier that
\* is too short and two that pass.
Leaves ==
  {ObjectValue(<<"chatId", "id">>, <<c, i>>) :
     c \in {UndefinedValue, StringValue(Short), StringValue(Letters(16))},
     i \in {UndefinedValue, StringValue(Short), StringValue(Uuid)}}

\* Objects with an id alone, over every identifier and over values that are
\* no strings, and with a chatId alone.
Singles ==
  {ObjectValue(<<"id">>, <<v>>) :
     v \in {StringValue(t) : t \in IdTexts} \cup {NumberValue, NullValue}}
    \cup {ObjectValue(<<"chatId">>, <<v>>) :
            v \in {StringValue(Uuid), StringValue(HelloWorld), NumberValue}}

\* Objects and arrays with a leaf below them that has an identifier to
\* offer: under an id that is too short, as the value of a chatId, and
\* after a number.
Nested ==
  LET below == {l \in Leaves : Truthy(NodeId(l))} IN
  {ObjectValue(<<"id", "data">>, <<StringValue(Short), l>>) : l \in below}
    \cup {ObjectValue(<<"chatId">>, <<l>>) : l \in below}
    \cup {ArrayValue(<<NumberValue, l>>) : l \in below}

\* finalContent as an array of such elements.
BinaryContents ==
  {ArrayValue(items) : items \in SeqsUpTo(Leaves \cup Singles \cup Nested, MaxElements)}

\* handleStreamingComplete called with a MessageBinaryFormat while the
\* last entry is streaming.
HandleCompleteBinary ==
  /\ hookPc = "streaming"
  /\ \E finalContent \in BinaryContents :
       StreamingComplete(finalContent, finalContent)
  /\ UNCHANGED <<completesHandled, turnVars>>

\* handleStreamingComplete called with a string while the last entry is
\* streaming.
HandleCompleteText ==
  /\ hookPc = "streaming"
  /\ \E finalContent \in {<<>>, UserMessage} :
       StreamingComplete(StringValue(finalContent), finalContent)
  /\ UNCHANGED <<completesHandled, turnVars>>

\* useChat sending one message.
Hook ==
  \/ HandleSendMessage
  \/ FetchRejected
  \/ FetchThrows
  \/ FetchNoBody
  \/ FetchOk
  \/ HandleStreamingComplete

\* ------------------------------------------ client: useChat, turn on turn

\* The messages the user sends on the chat page.
MaxSends == 2

\* The entry of a response under way: it holds the stream.
StreamingEntry(stream) ==
  [type |-> "assistant", content |-> <<>>, isStreaming |-> TRUE,
   stream |-> stream]

\* The stream handed to the entry that is about to be appended at index
\* `at`: not yet read to its end.
Handed(at) == [at |-> at, done |-> FALSE, final |-> <<>>]

\* The effect on handoff: the homepage's user message and the entry of its
\* stream are appended, isStreaming is set and the handoff is cleared.
HandoffEffect ==
  /\ handoff
  /\ chatHistory' = chatHistory
       \o << [type |-> "user", content |-> UserMessage, isStreaming |-> FALSE],
             StreamingEntry(Len(handedStreams) + 1) >>
  /\ handedStreams' = Append(handedStreams, Handed(Len(chatHistory) + 2))
  /\ isStreaming' = TRUE
  /\ handoff' = FALSE
  /\ UNCHANGED <<hookPc, isLoading, completesHandled, currentChat, fetched,
                 recoveries, inFlight, sends>>
  /\ UNCHANGED <<srvVars, backVars, cliVars>>

\* handleSendMessage with a message, up to `await fetch`: unless isLoading,
\* isLoading is set and the user entry appended.  The effect on handoff has
\* run by then: effects run after the first render, before any input.
SendMessage ==
  /\ ~handoff
  /\ ~isLoading
  /\ sends < MaxSends
  /\ isLoading' = TRUE
  /\ chatHistory' = Append(chatHistory,
       [type |-> "user", content |-> UserMessage, isStreaming |-> FALSE])
  /\ hookPc' = "fetching"
  /\ inFlight' = inFlight + 1
  /\ sends' = sends + 1
  /\ UNCHANGED <<isStreaming, completesHandled, currentChat, fetched,
                 recoveries, handoff, handedStreams>>
  /\ UNCHANGED <<srvVars, backVars, cliVars>>

\* A fetch ends without a stream (it rejects, or the response has no
\* body): the catch clause appends the error entry.
ResponseFails ==
  /\ inFlight > 0
  /\ \E errorMessage \in {FetchFailedMessage, NoBodyMessage} :
       CatchSend(errorMessage)
  /\ inFlight' = inFlight - 1
  /\ UNCHANGED <<handoff, handedStreams, sends>>

\* A fetch resolves with an ok response: isStreaming is set and the entry
\* of its stream appended.
ResponseOk ==
  /\ inFlight > 0
  /\ isStreaming' = TRUE
  /\ chatHistory' = Append(chatHistory, StreamingEntry(Len(handedStreams) + 1))
  /\ handedStreams' = Append(handedStreams, Handed(Len(chatHistory) + 1))
  /\ hookPc' = "streaming"
  /\ inFlight' = inFlight - 1
  /\ UNCHANGED <<isLoading, completesHandled, currentChat, fetched,
                 recoveries, handoff, sends>>
  /\ UNCHANGED <<srvVars, backVars, cliVars>>

\* Stream s has been read to its end: its TextStreamingMessage calls
\* onComplete, which is handleStreamingComplete, with the final content.
StreamCompletes(s) ==
  /\ ~handedStreams[s].done
  /\ \E finalContent \in {<<>>, UserMessage} :
       /\ StreamingComplete(StringValue(finalContent), finalContent)
       /\ handedStreams' = [handedStreams EXCEPT ![s] =
            [at |-> @.at, done |-> TRUE, final |-> finalContent]]
  /\ UNCHANGED <<completesHandled, handoff, inFlight, sends>>

Turns ==
  \/ HandoffEffect
  \/ SendMessage
  \/ ResponseFails
  \/ ResponseOk
  \/ \E s \in 1..Len(handedStreams) : StreamCompletes(s)

\* ------------------------------------------- server: provider selection

\* "openai", "gemini", "claude": AIProviderType
P_openai == <<111, 112, 101, 110, 97, 105>>
P_gemini == <<103, 101, 109, 105, 110, 105>>
P_claude == <<99, 108, 97, 117, 100, 101>>

\* String.prototype.toLowerCase on the letters A-Z.
ToLowerCase(s) ==
  [i \in 1..Len(s) |-> IF s[i] \in 65..90 THEN s[i] + 32 ELSE s[i]]

\* An override that counts only when its API key is configured.
AcceptsOverrideIfKeyed(requested) ==
  /\ requested.def
  /\ \/ requested.val = P_openai /\ Truthy(postEnv.OPENAI_API_KEY)
     \/ requested.val = P_gemini /\ Truthy(postEnv.GEMINI_API_KEY)
     \/ requested.val = P_claude /\ Truthy(postEnv.ANTHROPIC_API_KEY)

\* requested === "openai" || requested === "gemini" || requested === "claude"
AcceptsOverride(requested) ==
  /\ requested.def
  /\ \/ requested.val = P_openai
     \/ requested.val = P_gemini
     \/ requested.val = P_claude

\* process.env.AI_PROVIDER?.toLowerCase()
EnvProvider ==
  IF postEnv.AI_PROVIDER.def THEN Str(ToLowerCase(postEnv.AI_PROVIDER.val))
  ELSE Undefined

\* A setting that is honoured only when that provider's key is configured.
FromSettingIfKeyed(envProvider) ==
  IF envProvider = Str(P_gemini) /\ Truthy(postEnv.GEMINI_API_KEY) THEN Str(P_gemini)
  ELSE IF envProvider = Str(P_claude) /\ Truthy(postEnv.ANTHROPIC_API_KEY) THEN Str(P_claude)
  ELSE IF envProvider = Str(P_openai) /\ Truthy(postEnv.OPENAI_API_KEY) THEN Str(P_openai)
  ELSE Undefined

\* The three `if (envProvider === ...) return ...` tests: the provider the
\* setting selects, undefined when it selects none.
FromSetting(envProvider) ==
  IF envProvider = Str(P_gemini) THEN Str(P_gemini)
  ELSE IF envProvider = Str(P_claude) THEN Str(P_claude)
  ELSE IF envProvider = Str(P_openai) THEN Str(P_openai)
  ELSE Undefined

\* An auto-detection that looks at the Gemini key first.
AutoDetectGeminiFirst ==
  IF Truthy(postEnv.GEMINI_API_KEY) THEN P_gemini
  ELSE IF Truthy(postEnv.OPENAI_API_KEY) THEN P_openai
  ELSE IF Truthy(postEnv.ANTHROPIC_API_KEY) THEN P_claude
  ELSE P_openai

\* Auto-detect from available API keys, then the default.
AutoDetect ==
  IF Truthy(postEnv.OPENAI_API_KEY) THEN P_openai
  ELSE IF Truthy(postEnv.GEMINI_API_KEY) THEN P_gemini
  ELSE IF Truthy(postEnv.ANTHROPIC_API_KEY) THEN P_claude
  ELSE P_openai

\* getActiveProvider(requested)
getActiveProvider(requested) ==
  IF AcceptsOverride(requested) THEN requested.val
  ELSE IF FromSetting(EnvProvider).def THEN FromSetting(EnvProvider).val
  ELSE AutoDetect

\* A list that puts claude before gemini.
getAvailableProvidersClaudeFirst ==
  (IF Truthy(postEnv.OPENAI_API_KEY) THEN <<P_openai>> ELSE <<>>)
    \o (IF Truthy(postEnv.ANTHROPIC_API_KEY) THEN <<P_claude>> ELSE <<>>)
    \o (IF Truthy(postEnv.GEMINI_API_KEY) THEN <<P_gemini>> ELSE <<>>)

\* getAvailableProviders()
getAvailableProviders ==
  (IF Truthy(postEnv.OPENAI_API_KEY) THEN <<P_openai>> ELSE <<>>)
    \o (IF Truthy(postEnv.GEMINI_API_KEY) THEN <<P_gemini>> ELSE <<>>)
    \o (IF Truthy(postEnv.ANTHROPIC_API_KEY) THEN <<P_claude>> ELSE <<>>)

\* ------------------------------------------------------- server: POST

\* "Message is required"
MessageRequiredText ==
  <<77, 101, 115, 115, 97, 103, 101, 32, 105, 115, 32, 114, 101, 113, 117,
    105, 114, 101, 100>>
\* `Provider "`, and what follows the provider's name in the error
NotConfiguredHead ==
  <<80, 114, 111, 118, 105, 100, 101, 114, 32, 34>>
NotConfiguredTail ==
  <<34, 32, 105, 115, 32, 110, 111, 116, 32, 99, 111, 110, 102, 105, 103,
    117, 114, 101, 100, 46, 32, 83, 101, 116, 32, 116, 104, 101, 32, 99,
    111, 114, 114, 101, 115, 112, 111, 110, 100, 105, 110, 103, 32, 65, 80,
    73, 32, 107, 101, 121, 32, 105, 110, 32, 121, 111, 117, 114, 32, 101,
    110, 118, 105, 114, 111, 110, 109, 101, 110, 116, 32, 118, 97, 114,
    105, 97, 98, 108, 101, 115, 46>>
\* "Failed to process request"
FailedText ==
  <<70, 97, 105, 108, 101, 100, 32, 116, 111, 32, 112, 114, 111, 99, 101,
    115, 115, 32, 114, 101, 113, 117, 101, 115, 116>>
\* The opening words of SYSTEM_PROMPT.
SYSTEM_PROMPT ==
  <<89, 111, 117, 32, 97, 114, 101, 32, 97, 110, 32, 101, 120, 112, 101,
    114, 116, 32, 82, 101, 97, 99, 116, 32, 99, 111, 109, 112, 111, 110,
    101, 110, 116, 32, 103, 101, 110, 101, 114, 97, 116, 111, 114>>
\* "c1", the chat a request names; "c2", the id createChat returns; "u1"
ExistingChatId == <<99, 49>>
NewChatId == <<99, 50>>
UserId == <<117, 49>>
\* "k", an API key
KeyValue == <<107>>

\* The values an API key variable may have: unset, empty, set.
KeySettings == {Undefined, Str(<<>>), Str(KeyValue)}

\* The values AI_PROVIDER may have: unset, the three names, "Gemini", "x".
ProviderSettings ==
  {Undefined, Str(P_openai), Str(P_gemini), Str(P_claude),
   Str(<<71, 101, 109, 105, 110, 105>>), Str(<<120>>)}

\* The values the provider member of the request body may have.
RequestedProviders == ProviderSettings

Environments ==
  [AI_PROVIDER : ProviderSettings, OPENAI_API_KEY : KeySettings,
   GEMINI_API_KEY : KeySettings, ANTHROPIC_API_KEY : KeySettings]

\* The stored chat a request may name: none, or one with two messages.
StoredChats ==
  { [exists |-> FALSE, messages |-> <<>>],
    [exists |-> TRUE,
     messages |-> << [role |-> "user", content |-> <<97>>],
                     [role |-> "assistant", content |-> <<98>>] >>] }

\* The request body, session.user.id (absent, empty or an id) and whether getChatCountByUserId has
\* reached userEntitlements.maxMessagesPerDay.
Requests ==
  [message : {Undefined, Str(UserMessage)},
   chatId : {Undefined, Str(ExistingChatId)},
   streaming : BOOLEAN,
   provider : RequestedProviders,
   userId : {Undefined, Str(<<>>), Str(UserId)},
   overLimit : BOOLEAN]

NoResponse == [kind |-> "none"]

\* POST has been called; nothing has run yet.
PostInit ==
  /\ postPc = "start"
  /\ postProvider = Undefined
  /\ postAvailable = <<>>
  /\ postMessages = <<>>
  /\ storageCalls = <<>>
  /\ providerCalls = <<>>
  /\ postResponse = NoResponse

\* No request.
PostIdle ==
  /\ postEnv = [AI_PROVIDER |-> Undefined, OPENAI_API_KEY |-> Undefined,
                GEMINI_API_KEY |-> Undefined, ANTHROPIC_API_KEY |-> Undefined]
  /\ postReq = [message |-> Undefined, chatId |-> Undefined, streaming |-> FALSE,
                provider |-> Undefined, userId |-> Undefined, overLimit |-> FALSE]
  /\ postChat = [exists |-> FALSE, messages |-> <<>>]
  /\ postPc = "idle"
  /\ postProvider = Undefined
  /\ postAvailable = <<>>
  /\ postMessages = <<>>
  /\ storageCalls = <<>>
  /\ providerCalls = <<>>
  /\ postResponse = NoResponse

\* return <response>
PostReturn(response) ==
  /\ postResponse' = response
  /\ postPc' = "done"

\* catch (error): status 500, "Failed to process request".
PostCatch ==
  PostReturn([kind |-> "json", status |-> 500, error |-> FailedText])

\* if (!message) return 400
PostValidate ==
  /\ postPc = "start"
  /\ IF ~Truthy(postReq.message)
       THEN PostReturn([kind |-> "json", status |-> 400,
                        error |-> MessageRequiredText])
       ELSE /\ postPc' = "ratelimit"
            /\ UNCHANGED postResponse
  /\ UNCHANGED <<postEnv, postReq, postProvider, postAvailable, postChat,
                 postMessages, storageCalls, providerCalls>>
  /\ UNCHANGED <<srvVars, cliVars, hookVars, adVars, nmVars, extVars>>

\* A check of the quota alone, which lets a request without a session on.
PostRateLimitQuotaOnly ==
  /\ postPc = "ratelimit"
  /\ IF postReq.overLimit
       THEN PostReturn([kind |-> "ChatSDKError", code |-> "rate_limit:chat"])
       ELSE /\ postPc' = "resolve"
            /\ UNCHANGED postResponse
  /\ UNCHANGED <<postEnv, postReq, postProvider, postAvailable, postChat,
                 postMessages, storageCalls, providerCalls>>
  /\ UNCHANGED <<srvVars, cliVars, hookVars, adVars, nmVars, extVars>>

\* checkRateLimit(session)
PostRateLimit ==
  /\ postPc = "ratelimit"
  /\ IF ~Truthy(postReq.userId)
       THEN PostReturn([kind |-> "ChatSDKError", code |-> "unauthorized:chat"])
     ELSE IF postReq.overLimit
       THEN PostReturn([kind |-> "ChatSDKError", code |-> "rate_limit:chat"])
     ELSE /\ postPc' = "resolve"
          /\ UNCHANGED postResponse
  /\ UNCHANGED <<postEnv, postReq, postProvider, postAvailable, postChat,
                 postMessages, storageCalls, providerCalls>>
  /\ UNCHANGED <<srvVars, cliVars, hookVars, adVars, nmVars, extVars>>

\* A check that passes as soon as any provider is configured.
IncludesAny(available, provider) == available # <<>>

\* available.includes(provider)
Includes(available, provider) ==
  \E i \in 1..Len(available) : available[i] = provider

\* provider = getActiveProvider(requestedProvider); the request is rejected
\* with status 400 when getAvailableProviders() does not include it.
PostResolve ==
  /\ postPc = "resolve"
  /\ LET provider == getActiveProvider(postReq.provider)
         available == getAvailableProviders
     IN
       /\ postProvider' = Str(provider)
       /\ postAvailable' = available
       /\ IF ~Includes(available, provider)
            THEN PostReturn([kind |-> "json", status |-> 400,
                   error |-> NotConfiguredHead \o provider \o NotConfiguredTail])
            ELSE /\ postPc' = "storage"
                 /\ UNCHANGED postResponse
  /\ UNCHANGED <<postEnv, postReq, postChat, postMessages, storageCalls,
                 providerCalls>>
  /\ UNCHANGED <<srvVars, cliVars, hookVars, adVars, nmVars, extVars>>

\* The chat POST works on: chatId, or the id createChat returned.
ActiveChatId ==
  IF Truthy(postReq.chatId) THEN postReq.chatId.val ELSE NewChatId

\* A history read after the new user message has been stored.
HistoryMessagesAfterStore ==
  (IF postChat.exists THEN postChat.messages ELSE <<>>)
    \o << [role |-> "user", content |-> postReq.message.val] >>

\* The messages the stored chat contributes: existingChat?.messages.
HistoryMessages == IF postChat.exists THEN postChat.messages ELSE <<>>

\* The new user message.
NewUserMessage == [role |-> "user", content |-> postReq.message.val]

\* chatId given and the chat is stored: its messages are loaded, the user
\* message is added to it, and messages ends with the user message.
PostLoadAndStore ==
  /\ postPc = "storage"
  /\ Truthy(postReq.chatId)
  /\ postChat.exists
  /\ storageCalls' = Append(storageCalls,
       [op |-> "addMessageToChat", chatId |-> postReq.chatId.val,
        role |-> "user", content |-> postReq.message.val])
  /\ postChat' = [postChat EXCEPT !.messages = Append(@, NewUserMessage)]
  /\ postMessages' = << [role |-> "system", content |-> SYSTEM_PROMPT] >>
                       \o HistoryMessages \o <<NewUserMessage>>
  /\ postPc' = "dispatch"
  /\ UNCHANGED <<postEnv, postReq, postProvider, postAvailable,
                 providerCalls, postResponse>>
  /\ UNCHANGED <<srvVars, cliVars, hookVars, adVars, nmVars, extVars>>

\* chatId given and no such chat: getChatById returns null, addMessageToChat
\* throws, POST answers 500.
PostChatMissing ==
  /\ postPc = "storage"
  /\ Truthy(postReq.chatId)
  /\ ~postChat.exists
  /\ storageCalls' = Append(storageCalls,
       [op |-> "addMessageToChat", chatId |-> postReq.chatId.val,
        role |-> "user", content |-> postReq.message.val])
  /\ PostCatch
  /\ UNCHANGED <<postEnv, postReq, postProvider, postAvailable, postChat,
                 postMessages, providerCalls>>
  /\ UNCHANGED <<srvVars, cliVars, hookVars, adVars, nmVars, extVars>>

\* const userId = session?.user?.id || ""
SessionUserId == IF Truthy(postReq.userId) THEN postReq.userId.val ELSE <<>>

\* No chatId: createChat stores a chat of userId holding the user message.
PostCreateChat ==
  /\ postPc = "storage"
  /\ ~Truthy(postReq.chatId)
  /\ storageCalls' = Append(storageCalls,
       [op |-> "createChat", chatId |-> NewChatId, userId |-> SessionUserId,
        role |-> "user", content |-> postReq.message.val])
  /\ postChat' = [exists |-> TRUE, messages |-> <<NewUserMessage>>]
  /\ postMessages' = << [role |-> "system", content |-> SYSTEM_PROMPT],
                        NewUserMessage >>
  /\ postPc' = "dispatch"
  /\ UNCHANGED <<postEnv, postReq, postProvider, postAvailable,
                 providerCalls, postResponse>>
  /\ UNCHANGED <<srvVars, cliVars, hookVars, adVars, nmVars, extVars>>

\* streaming: handleStreaming builds the lazy stream and returns the
\* response around it.
PostStreaming ==
  /\ postPc = "dispatch"
  /\ postReq.streaming
  /\ providerCalls' = Append(providerCalls,
       [fn |-> "createStreamingCompletion", provider |-> postProvider.val,
        messages |-> postMessages])
  /\ PostReturn([kind |-> "stream", id |-> ActiveChatId])
  /\ UNCHANGED <<postEnv, postReq, postProvider, postAvailable, postChat,
                 postMessages, storageCalls>>
  /\ UNCHANGED <<srvVars, cliVars, hookVars, adVars, nmVars, extVars>>

\* Not streaming, createCompletion resolves: the assistant message is
\* added to the chat and returned.
PostCompletionOk ==
  /\ postPc = "dispatch"
  /\ ~postReq.streaming
  /\ \E assistantContent \in Deltas :
       /\ providerCalls' = Append(providerCalls,
            [fn |-> "createCompletion", provider |-> postProvider.val,
             messages |-> postMessages])
       /\ storageCalls' = Append(storageCalls,
            [op |-> "addMessageToChat", chatId |-> ActiveChatId,
             role |-> "assistant", content |-> assistantContent])
       /\ postChat' = [postChat EXCEPT !.messages =
            Append(@, [role |-> "assistant", content |-> assistantContent])]
       /\ PostReturn([kind |-> "json", status |-> 200, id |-> ActiveChatId,
                      content |-> assistantContent])
  /\ UNCHANGED <<postEnv, postReq, postProvider, postAvailable, postMessages>>
  /\ UNCHANGED <<srvVars, cliVars, hookVars, adVars, nmVars, extVars>>

\* The promise POST returned is rejected: POST answers nothing itself.
PostRejects ==
  /\ postResponse' = [kind |-> "rejected"]
  /\ postPc' = "done"

\* `return handleNonStreaming(...)` hands the promise on without awaiting
\* it: when it is rejected POST has left the try block and its promise is
\* rejected too, the catch clause is not run.
NonStreamingRejects == PostRejects

\* Not streaming, createCompletion rejects: so does handleNonStreaming
\* before it has called addMessageToChat.
PostCompletionFails ==
  /\ postPc = "dispatch"
  /\ ~postReq.streaming
  /\ providerCalls' = Append(providerCalls,
       [fn |-> "createCompletion", provider |-> postProvider.val,
        messages |-> postMessages])
  /\ NonStreamingRejects
  /\ UNCHANGED <<postEnv, postReq, postProvider, postAvailable, postChat,
                 postMessages, storageCalls>>
  /\ UNCHANGED <<srvVars, cliVars, hookVars, adVars, nmVars, extVars>>

Post ==
  \/ PostValidate
  \/ PostRateLimit
  \/ PostResolve
  \/ PostLoadAndStore
  \/ PostChatMissing
  \/ PostCreateChat
  \/ PostStreaming
  \/ PostCompletionOk
  \/ PostCompletionFails

\* ------------------------------------------------------ server: adapters

\* config.temperature ?? 0.7, in tenths
DefaultTemperature == 7
\* config.maxTokens ?? 4096
DefaultMaxTokens == 4096

\* A number value, and undefined where a number may stand.
Num(n) == [def |-> TRUE, val |-> n]
NoNumber == [def |-> FALSE, val |-> 0]

\* v ?? d
Nullish(v, d) == IF v.def THEN v.val ELSE d

\* The configs a caller may pass: each member absent or given (temperature in
\* tenths: 0 and 0.2).
Configs ==
  [temperature : {NoNumber, Num(0), Num(2)},
   maxTokens : {NoNumber, Num(1), Num(100)}]

\* The text an event may carry.
EventTexts == {<<>>, <<72, 101, 108>>, <<233, 10>>}

\* OpenAI stream chunks: no choice at all, a delta without content (a
\* role-only chunk), a delta with content.
OpenaiEvents ==
  {[choices |-> <<>>]}
    \cup {[choices |-> << [delta |-> [content |-> c]] >>] :
            c \in {Undefined} \cup {Str(t) : t \in EventTexts}}

\* Gemini stream chunks: what chunk.text() returns.
GeminiEvents == {[text |-> t] : t \in EventTexts}

\* Claude stream events: text deltas, JSON deltas of a tool call, and
\* events of other types.
ClaudeEvents ==
  {[type |-> "content_block_delta", delta |-> [type |-> "text_delta", text |-> t]] :
     t \in EventTexts}
    \cup {[type |-> "content_block_delta",
           delta |-> [type |-> "input_json_delta", text |-> <<123>>]],
          [type |-> "message_start", delta |-> [type |-> "none", text |-> <<>>]]}

\* The events the provider's native stream is made of.
NativeEvents(provider) ==
  IF provider = P_gemini THEN GeminiEvents
  ELSE IF provider = P_claude THEN ClaudeEvents
  ELSE OpenaiEvents

\* No adapter call.
AdapterIdle ==
  /\ adProvider = P_openai
  /\ adMode = "complete"
  /\ adConfig = [temperature |-> NoNumber, maxTokens |-> NoNumber]
  /\ adEvents = <<>>
  /\ adIdx = 0
  /\ adPc = "idle"
  /\ adRequests = <<>>
  /\ adYielded = <<>>

\* createCompletion or createStreamingCompletion has been called.
AdapterInit ==
  /\ adProvider \in {P_openai, P_gemini, P_claude}
  /\ adMode \in {"complete", "stream"}
  /\ adConfig \in Configs
  /\ adEvents \in SeqsUpTo(NativeEvents(adProvider), MaxChunks)
  /\ adMode = "complete" => adEvents = <<>>
  /\ adIdx = 0
  /\ adPc = "start"
  /\ adRequests = <<>>
  /\ adYielded = <<>>

\* client.chat.completions.create({model, messages, [stream,] temperature,
\* max_tokens})
OpenaiRequest(stream) ==
  [api |-> "openai.chat.completions.create", stream |-> stream,
   temperature |-> Nullish(adConfig.temperature, DefaultTemperature),
   max_tokens |-> Nullish(adConfig.maxTokens, DefaultMaxTokens)]

\* client.getGenerativeModel({model, systemInstruction, generationConfig}),
\* then sendMessage or sendMessageStream
GeminiRequest(stream) ==
  [api |-> "gemini.getGenerativeModel", stream |-> stream,
   temperature |-> Nullish(adConfig.temperature, DefaultTemperature),
   maxOutputTokens |-> Nullish(adConfig.maxTokens, DefaultMaxTokens)]

\* client.messages.create / client.messages.stream({model, max_tokens,
\* system, messages})
ClaudeRequest(stream) ==
  [api |-> "anthropic.messages", stream |-> stream,
   max_tokens |-> Nullish(adConfig.maxTokens, DefaultMaxTokens)]

\* The request the adapter of a provider issues.
NativeRequest(provider, stream) ==
  IF provider = P_gemini THEN GeminiRequest(stream)
  ELSE IF provider = P_claude THEN ClaudeRequest(stream)
  ELSE OpenaiRequest(stream)

\* createCompletion: openaiCompletion, geminiCompletion or claudeCompletion
\* issues its request and returns the text.
AdComplete ==
  /\ adPc = "start"
  /\ adMode = "complete"
  /\ adRequests' = Append(adRequests, NativeRequest(adProvider, FALSE))
  /\ adPc' = "done"
  /\ UNCHANGED <<adProvider, adMode, adConfig, adEvents, adIdx, adYielded>>
  /\ UNCHANGED <<srvVars, cliVars, hookVars, postVars, nmVars, extVars>>

\* createStreamingCompletion: openaiStream, geminiStream or claudeStream
\* issues its request.
AdStreamStart ==
  /\ adPc = "start"
  /\ adMode = "stream"
  /\ adRequests' = Append(adRequests, NativeRequest(adProvider, TRUE))
  /\ adPc' = "streaming"
  /\ UNCHANGED <<adProvider, adMode, adConfig, adEvents, adIdx, adYielded>>
  /\ UNCHANGED <<srvVars, cliVars, hookVars, postVars, nmVars, extVars>>

\* const content = chunk.choices[0]?.delta?.content || "";
\* if (content) yield { content }
OpenaiYield(chunk) ==
  LET content ==
        IF chunk.choices # <<>> /\ Truthy(chunk.choices[1].delta.content)
          THEN chunk.choices[1].delta.content.val
          ELSE <<>>
  IN IF content # <<>> THEN << [content |-> content] >> ELSE <<>>

\* A loop that yields every chunk's text, empty or not.
GeminiYieldUnfiltered(chunk) == << [content |-> chunk.text] >>

\* const content = chunk.text(); if (content) yield { content }
GeminiYield(chunk) ==
  IF chunk.text # <<>> THEN << [content |-> chunk.text] >> ELSE <<>>

\* if (event.type === "content_block_delta" && event.delta.type ===
\* "text_delta") { const content = event.delta.text; if (content) yield }
ClaudeYield(event) ==
  IF event.type = "content_block_delta" /\ event.delta.type = "text_delta"
    THEN IF event.delta.text # <<>> THEN << [content |-> event.delta.text] >>
         ELSE <<>>
    ELSE <<>>

\* The step all three loops share: the next event's chunks are yielded.
AdTick(chunks) ==
  /\ adPc = "streaming"
  /\ adIdx < Len(adEvents)
  /\ adYielded' = adYielded \o chunks
  /\ adIdx' = adIdx + 1
  /\ UNCHANGED <<adProvider, adMode, adConfig, adEvents, adPc, adRequests>>
  /\ UNCHANGED <<srvVars, cliVars, hookVars, postVars, nmVars, extVars>>

\* One turn of openaiStream's `for await (const chunk of stream)`.
OpenaiStreamTick ==
  /\ adProvider \notin {P_gemini, P_claude}
  /\ adIdx < Len(adEvents)
  /\ AdTick(OpenaiYield(adEvents[adIdx + 1]))

\* One turn of geminiStream's `for await (const chunk of result.stream)`.
GeminiStreamTick ==
  /\ adProvider = P_gemini
  /\ adIdx < Len(adEvents)
  /\ AdTick(GeminiYield(adEvents[adIdx + 1]))

\* One turn of claudeStream's `for await (const event of stream)`.
ClaudeStreamTick ==
  /\ adProvider = P_claude
  /\ adIdx < Len(adEvents)
  /\ AdTick(ClaudeYield(adEvents[adIdx + 1]))

\* The native stream has ended: so does the generator.
AdStreamEnd ==
  /\ adPc = "streaming"
  /\ adIdx = Len(adEvents)
  /\ adPc' = "done"
  /\ UNCHANGED <<adProvider, adMode, adConfig, adEvents, adIdx, adRequests,
                 adYielded>>
  /\ UNCHANGED <<srvVars, cliVars, hookVars, postVars, nmVars, extVars>>

Adapter ==
  \/ AdComplete
  \/ AdStreamStart
  \/ OpenaiStreamTick
  \/ GeminiStreamTick
  \/ ClaudeStreamTick
  \/ AdStreamEnd

\* ------------------------------------------- server: message normalisation

\* An adapter is called with at most this many messages.
MaxMessages == 3

\* ChatMessage.role
Roles == {"system", "user", "assistant"}

\* ChatMessage.content: "", "a", "b"
Contents == {<<>>, <<97>>, <<98>>}

\* ChatMessage
ChatMessages == [role : Roles, content : Contents]

\* The adapters' `messages` parameter.
MessageLists == SeqsUpTo(ChatMessages, MaxMessages)

\* acc += (acc ? "\n" : "") + msg.content
AddSystem(acc, content) ==
  acc \o (IF acc # <<>> THEN <<10>> ELSE <<>>) \o content

\* The branch condition that takes any user message as the final turn.
IsAnyUserTurn(messages, i) == messages[i].role = "user"

\* i === messages.length - 1 && msg.role === "user" (i counted from 1 here)
IsFinalUserTurn(messages, i) ==
  i = Len(messages) /\ messages[i].role = "user"

\* A mapping that keeps the role it is given.
GeminiRoleKept(role) == role

\* msg.role === "assistant" ? "model" : "user"
GeminiRole(role) == IF role = "assistant" THEN "model" ELSE "user"

RECURSIVE GeminiLoop(_, _, _)
\* The for loop of toGeminiMessages from index i on, with what the turns
\* before it have left in systemInstruction, history and lastMessage.
GeminiLoop(messages, i, acc) ==
  IF i > Len(messages) THEN acc
  ELSE LET msg == messages[i] IN
    GeminiLoop(messages, i + 1,
      IF msg.role = "system"
        THEN [acc EXCEPT !.systemInstruction = AddSystem(@, msg.content)]
      ELSE IF IsFinalUserTurn(messages, i)
        THEN [acc EXCEPT !.lastMessage = msg.content]
      ELSE [acc EXCEPT !.history =
              Append(@, [role |-> GeminiRole(msg.role),
                         parts |-> << [text |-> msg.content] >>])])

\* toGeminiMessages(messages)
toGeminiMessages(messages) ==
  GeminiLoop(messages, 1,
    [systemInstruction |-> <<>>, history |-> <<>>, lastMessage |-> <<>>])

RECURSIVE AnthropicLoop(_, _, _)
\* The for-of loop of toAnthropicMessages from index i on.
AnthropicLoop(messages, i, acc) ==
  IF i > Len(messages) THEN acc
  ELSE LET msg == messages[i] IN
    AnthropicLoop(messages, i + 1,
      IF msg.role = "system"
        THEN [acc EXCEPT !.system = AddSystem(@, msg.content)]
      ELSE [acc EXCEPT !.messages =
              Append(@, [role |-> msg.role, content |-> msg.content])])

\* toAnthropicMessages(messages)
toAnthropicMessages(messages) ==
  AnthropicLoop(messages, 1, [system |-> <<>>, messages |-> <<>>])

\* openaiCompletion and openaiStream pass `messages` on as it is.
OpenaiMessages(messages) == [messages |-> messages]

\* No adapter has been given messages.
NormalizerIdle ==
  /\ nmMessages = <<>>
  /\ nmProvider = P_openai
  /\ nmPc = "idle"
  /\ nmShape = [messages |-> <<>>]

\* An adapter of some provider is called with some messages.
NormalizerInit ==
  /\ nmMessages \in MessageLists
  /\ nmProvider \in {P_openai, P_gemini, P_claude}
  /\ nmPc = "start"
  /\ nmShape = [messages |-> <<>>]

\* What all three adapters do with their messages: the shape goes into the
\* provider's request.
Normalize(shape) ==
  /\ nmPc = "start"
  /\ nmShape' = shape
  /\ nmPc' = "done"
  /\ UNCHANGED <<nmMessages, nmProvider>>
  /\ UNCHANGED <<srvVars, cliVars, hookVars, postVars, adVars, extVars>>

\* openaiCompletion / openaiStream: messages
NormalizeOpenai ==
  /\ nmProvider = P_openai
  /\ Normalize(OpenaiMessages(nmMessages))

\* geminiCompletion / geminiStream: toGeminiMessages(messages)
NormalizeGemini ==
  /\ nmProvider = P_gemini
  /\ Normalize(toGeminiMessages(nmMessages))

\* claudeCompletion / claudeStream: toAnthropicMessages(messages)
NormalizeAnthropic ==
  /\ nmProvider = P_claude
  /\ Normalize(toAnthropicMessages(nmMessages))

Normalizer ==
  \/ NormalizeOpenai
  \/ NormalizeGemini
  \/ NormalizeAnthropic

\* --------------------------------------- server: GET /api/chats/[chatId]

\* "u2"
OtherUserId == <<117, 50>>
\* "My chat"
ChatName == <<77, 121, 32, 99, 104, 97, 116>>
\* "Chat ID is required"
ChatIdRequiredText ==
  <<67, 104, 97, 116, 32, 73, 68, 32, 105, 115, 32, 114, 101, 113, 117,
    105, 114, 101, 100>>
\* "Chat not found"
ChatNotFoundText ==
  <<67, 104, 97, 116, 32, 110, 111, 116, 32, 102, 111, 117, 110, 100>>
\* "Forbidden"
ForbiddenText == <<70, 111, 114, 98, 105, 100, 100, 101, 110>>
\* "Failed to fetch chat details"
FetchDetailsFailedText ==
  <<70, 97, 105, 108, 101, 100, 32, 116, 111, 32, 102, 101, 116, 99, 104,
    32, 99, 104, 97, 116, 32, 100, 101, 116, 97, 105, 108, 115>>

\* The requesters: no session, a session without a user id, the owner of
\* the stored chats and another user.
GetSessions == {Undefined, Str(<<>>), Str(UserId), Str(OtherUserId)}

\* What the chats table holds under the requested id: nothing, or a chat of
\* u1 or of u2, empty or with two messages.
GetStoredChats ==
  { [exists |-> FALSE, id |-> <<>>, user_id |-> <<>>, name |-> <<>>,
     messages |-> <<>>] }
    \cup
  { [exists |-> TRUE, id |-> ExistingChatId, user_id |-> u,
     name |-> ChatName, messages |-> m] :
      u \in {UserId, OtherUserId},
      m \in { <<>>, << [role |-> "user", content |-> <<97>>],
                       [role |-> "assistant", content |-> <<98>>] >> } }

\* `${chat.id}-msg-${index}`, for an index below ten.
MessageId(chatId, index) == chatId \o <<45, 109, 115, 103, 45>> \o <<48 + index>>

\* The body of the 200 response: id, name and the messages, each with its
\* id, role and content.
ChatDetails(chat) ==
  [kind |-> "json", status |-> 200, id |-> chat.id, name |-> chat.name,
   messages |-> [i \in 1..Len(chat.messages) |->
                   [id |-> MessageId(chat.id, i - 1),
                    role |-> chat.messages[i].role,
                    content |-> chat.messages[i].content]]]

\* NextResponse.json({error}, {status})
GetError(status, text) ==
  [kind |-> "json", status |-> status, id |-> <<>>, name |-> <<>>,
   messages |-> <<>>, error |-> text]

\* GET has been called by one of the requesters for an id.
GetInit ==
  /\ getSession \in GetSessions
  /\ getChatId \in {<<>>, ExistingChatId}
  /\ getStored \in GetStoredChats
  /\ getChatId = <<>> => ~getStored.exists
  /\ getPc = "start"
  /\ getResponse = [kind |-> "none"]

\* return <response>
GetReturn(response) ==
  /\ getResponse' = response
  /\ getPc' = "done"

\* session = await auth()
GetAuth ==
  /\ getPc = "start"
  /\ getPc' = "params"
  /\ UNCHANGED <<getSession, getChatId, getStored, getResponse, requestsMade,
                 dbVars>>
  /\ UNCHANGED <<srvVars, cliVars, hookVars, postVars, adVars, nmVars>>

\* { chatId } = await params; if (!chatId) return 400
GetParams ==
  /\ getPc = "params"
  /\ IF getChatId = <<>>
       THEN GetReturn(GetError(400, ChatIdRequiredText))
       ELSE /\ getPc' = "load"
            /\ UNCHANGED getResponse
  /\ UNCHANGED <<getSession, getChatId, getStored, requestsMade, dbVars>>
  /\ UNCHANGED <<srvVars, cliVars, hookVars, postVars, adVars, nmVars>>

\* chat = await getChatById({chatId}); if (!chat) return 404
GetLoad ==
  /\ getPc = "load"
  /\ IF ~getStored.exists
       THEN GetReturn(GetError(404, ChatNotFoundText))
       ELSE /\ getPc' = "authorize"
            /\ UNCHANGED getResponse
  /\ UNCHANGED <<getSession, getChatId, getStored, requestsMade, dbVars>>
  /\ UNCHANGED <<srvVars, cliVars, hookVars, postVars, adVars, nmVars>>

\* getChatById rejects: catch (error) returns 500.
GetLoadFails ==
  /\ getPc = "load"
  /\ GetReturn(GetError(500, FetchDetailsFailedText))
  /\ UNCHANGED <<getSession, getChatId, getStored, requestsMade, dbVars>>
  /\ UNCHANGED <<srvVars, cliVars, hookVars, postVars, adVars, nmVars>>

\* session?.user?.id && chat.user_id !== session.user.id
Forbidden == Truthy(getSession) /\ getStored.user_id # getSession.val

\* if (session?.user?.id && chat.user_id !== session.user.id) return 403;
\* return the chat.
GetAuthorize ==
  /\ getPc = "authorize"
  /\ IF Forbidden
       THEN GetReturn(GetError(403, ForbiddenText))
       ELSE GetReturn(ChatDetails(getStored))
  /\ UNCHANGED <<getSession, getChatId, getStored, requestsMade, dbVars>>
  /\ UNCHANGED <<srvVars, cliVars, hookVars, postVars, adVars, nmVars>>

Get ==
  \/ GetAuth
  \/ GetParams
  \/ GetLoad
  \/ GetLoadFails
  \/ GetAuthorize

\* ------------------------------------- server: concurrent addMessageToChat

\* The calls under way at once on one chat.
MaxWriters == 2

\* What the calls append: the user message of one request, the assistant
\* message of another.
AddMessages ==
  { [role |-> "user", content |-> UserMessage],
    [role |-> "assistant", content |-> <<98>>] }

\* MaxWriters addMessageToChat calls have been made on the chat, which is
\* stored, empty or with one message, or is not.
StoreInit ==
  /\ dbExists \in BOOLEAN
  /\ dbMessages \in {<<>>, << [role |-> "user", content |-> <<97>>] >>}
  /\ ~dbExists => dbMessages = <<>>
  /\ addArgs \in [1..MaxWriters -> AddMessages]
  /\ addPc = [c \in 1..MaxWriters |-> "start"]
  /\ addLocal = [c \in 1..MaxWriters |-> <<>>]

\* chat = await getChatById({chatId}); if (!chat) throw;
\* messages = chat.messages || []; messages.push({role, content})
AddRead(c) ==
  /\ addPc[c] = "start"
  /\ IF dbExists
       THEN /\ addLocal' = [addLocal EXCEPT ![c] = Append(dbMessages, addArgs[c])]
            /\ addPc' = [addPc EXCEPT ![c] = "read"]
       ELSE /\ addPc' = [addPc EXCEPT ![c] = "failed"]
            /\ UNCHANGED addLocal
  /\ UNCHANGED <<dbExists, dbMessages, addArgs, requestsMade, getVars>>
  /\ UNCHANGED <<srvVars, cliVars, hookVars, postVars, adVars, nmVars>>

\* await getDb().update(chats).set({messages, updated_at}).where(id = chatId)
AddUpdate(c) ==
  /\ addPc[c] = "read"
  /\ dbMessages' = addLocal[c]
  /\ addPc' = [addPc EXCEPT ![c] = "done"]
  /\ UNCHANGED <<dbExists, addArgs, addLocal, requestsMade, getVars>>
  /\ UNCHANGED <<srvVars, cliVars, hookVars, postVars, adVars, nmVars>>

Store ==
  \/ \E c \in 1..MaxWriters : AddRead(c)
  \/ \E c \in 1..MaxWriters : AddUpdate(c)

\* ------------------------------------------- server: POST, request on request

\* userEntitlements.maxMessagesPerDay, kept small.
MaxMessagesPerDay == 1

\* The requests one user makes within 24 hours.
MaxRequests == 3

\* getChatCountByUserId({userId, differenceInHours: 24}): the chats of the
\* user created in the window, which are those createChat has stored since
\* the window began.
getChatCountByUserId(userId) ==
  Cardinality({n \in 1..Len(storageCalls) :
                 /\ storageCalls[n].op = "createChat"
                 /\ storageCalls[n].userId = userId})

\* chatCount >= userEntitlements.maxMessagesPerDay
QuotaReached(userId) == getChatCountByUserId(userId) >= MaxMessagesPerDay

\* The requests of the signed-in user u1, who names no provider: with a
\* message or without, for a new chat or a stored one, streaming or not.
UserRequests ==
  {r \in Requests : /\ r.userId = Str(UserId)
                    /\ r.provider = Undefined
                    /\ r.overLimit = QuotaReached(UserId)}

\* The user's next request arrives once the last one has been answered:
\* POST starts afresh, the calls made so far stay made.
NextRequest ==
  /\ postPc = "done"
  /\ requestsMade < MaxRequests
  /\ requestsMade' = requestsMade + 1
  /\ postReq' \in UserRequests
  /\ postChat' \in StoredChats
  /\ Truthy(postReq'.chatId) \/ ~postChat'.exists
  /\ postPc' = "start"
  /\ postProvider' = Undefined
  /\ postAvailable' = <<>>
  /\ postMessages' = <<>>
  /\ postResponse' = NoResponse
  /\ UNCHANGED <<postEnv, storageCalls, providerCalls, getVars, dbVars>>
  /\ UNCHANGED <<srvVars, cliVars, hookVars, adVars, nmVars>>

\* --------------------------------------------------------- specifications

\* consumeSSEStream, started by the component's first effect run.
Decoder ==
  \/ Mount
  \/ ReadChunk
  \/ HandleLine
  \/ ReadDone
  \/ ReadError

\* The component's life around it.
Lifecycle ==
  \/ Rerender
  \/ Unmount

\* A frame whose JSON lost its end: data: {"type":"content","content":"x
CorruptFrame ==
  LET json == ContentJson(<<120>>) IN
  Utf8Encode(DataPrefix \o SubSeq(json, 1, Len(json) - 2) \o FrameEnd)

\* Streams of well-formed frames.
WellFormedStreams ==
  { << FrameBytes(ChatMetaJson(<<99, 49>>)), FrameBytes(ContentJson(<<72, 101, 108>>)),
       FrameBytes(DoneJson) >>,
    << FrameBytes(ContentJson(<<233, 10>>)), FrameBytes(DoneJson),
       FrameBytes(ContentJson(<<97>>)) >> }

\* Streams with one corrupted line between two valid frames.
CorruptedStreams ==
  { << FrameBytes(ContentJson(<<97>>)), CorruptFrame, FrameBytes(ContentJson(<<98>>)) >> }

\* "x", a type the decoder does not know
V_x == <<120>>

\* A stream of lines the decoder has no callback for, then one content
\* frame: chat_metadata without id, content with empty content, an unknown
\* type, a data line that is blank after trimming ("data:  "), a line
\* without the data prefix (": ka").
IgnoredStreams ==
  { << FrameBytes(JsonStringify(<< <<K_type, V_chat_metadata>> >>)),
       FrameBytes(ContentJson(<<>>)),
       FrameBytes(JsonStringify(<< <<K_type, V_x>>, <<K_id, <<99, 49>> >> >>)),
       Utf8Encode(DataPrefix \o <<32>> \o FrameEnd),
       Utf8Encode(<<58, 32, 107, 97>> \o FrameEnd),
       FrameBytes(ContentJson(<<97>>)) >> }

TestStreams == WellFormedStreams \cup CorruptedStreams \cup IgnoredStreams

\* The stream the component runs read: two content frames.
ComponentStreams ==
  { << FrameBytes(ContentJson(<<97>>)), FrameBytes(ContentJson(<<98>>)) >> }

\* The encoder alone: handleStreaming over every provider script.
InitEncode ==
  /\ script \in Scripts
  /\ activeChatId \in ChatIds
  /\ SrvInit
  /\ ClientInit
  /\ HookInit
  /\ PostIdle
  /\ AdapterIdle
  /\ NormalizerIdle
  /\ ExtIdle

NextEncode == Server

SpecEncode == InitEncode /\ [][NextEncode]_vars

\* A finished (closed or errored) response body whose bytes are one of
\* `streams`, and no component yet.
BodyOf(streams) ==
  /\ script = <<>>
  /\ pIdx = 0
  /\ activeChatId = <<>>
  /\ fullResponse = <<>>
  /\ addCalls = <<>>
  /\ persisted = <<>>
  /\ enqueued \in streams
  /\ \/ streamState = "closed" /\ srvPc = "finished"
     \/ streamState = "errored" /\ srvPc = "failed"
  /\ ClientInit
  /\ HookInit
  /\ PostIdle
  /\ AdapterIdle
  /\ NormalizerIdle
  /\ ExtIdle

\* The decoder alone: consumeSSEStream reading each of the test streams, cut
\* into read() chunks in every way.
InitDecode == BodyOf(TestStreams)

NextDecode == Decoder

SpecDecode == InitDecode /\ [][NextDecode]_vars

\* The component: its effect, renders and unmount around one decode.
InitComponent == BodyOf(ComponentStreams)

NextComponent == Decoder \/ Lifecycle

SpecComponent == InitComponent /\ [][NextComponent]_vars

\* One turn of useChat: handleSendMessage, the response (rejected, or a body
\* that closes or errors) and handleStreamingComplete.
InitChat == BodyOf(ComponentStreams)

NextChat ==
  \/ Hook
  \/ ReadChunk
  \/ HandleLine
  \/ ReadDone
  \/ ReadError

SpecChat == InitChat /\ [][NextChat]_vars

\* POST answering one request, under every environment: the stream of the
\* response is not run.
InitPost ==
  /\ postEnv \in Environments
  /\ postReq \in Requests
  /\ postChat \in StoredChats
  /\ Truthy(postReq.chatId) \/ ~postChat.exists
  /\ PostInit
  /\ AdapterIdle
  /\ NormalizerIdle
  /\ ExtIdle
  /\ script = <<>>
  /\ activeChatId = <<>>
  /\ SrvInit
  /\ ClientInit
  /\ HookInit

NextPost == Post

SpecPost == InitPost /\ [][NextPost]_vars

\* The adapters: createCompletion and createStreamingCompletion for every
\* provider, config and native event script.
InitAdapter ==
  /\ AdapterInit
  /\ NormalizerIdle
  /\ ExtIdle
  /\ PostIdle
  /\ script = <<>>
  /\ activeChatId = <<>>
  /\ SrvInit
  /\ ClientInit
  /\ HookInit

NextAdapter == Adapter

SpecAdapter == InitAdapter /\ [][NextAdapter]_vars

\* The normalisation of the messages: every adapter over every short list of
\* messages.
InitNormalize ==
  /\ NormalizerInit
  /\ ExtIdle
  /\ AdapterIdle
  /\ PostIdle
  /\ script = <<>>
  /\ activeChatId = <<>>
  /\ SrvInit
  /\ ClientInit
  /\ HookInit

NextNormalize == Normalizer

SpecNormalize == InitNormalize /\ [][NextNormalize]_vars

\* handleStreamingComplete at the end of a stream, with a current chat and
\* without one, over every final content.
InitRecover ==
  /\ hookPc = "streaming"
  /\ chatHistory =
       << [type |-> "user", content |-> UserMessage, isStreaming |-> FALSE],
          [type |-> "assistant", content |-> <<>>, isStreaming |-> TRUE] >>
  /\ isLoading = TRUE
  /\ isStreaming = TRUE
  /\ completesHandled = 0
  /\ currentChat \in {Undefined, Str(RouteChatId)}
  /\ fetched = <<>>
  /\ recoveries = <<>>
  /\ TurnIdle
  /\ script = <<>>
  /\ activeChatId = <<>>
  /\ SrvInit
  /\ ClientInit
  /\ PostIdle
  /\ AdapterIdle
  /\ NormalizerIdle
  /\ ExtIdle

NextRecover ==
  \/ HandleCompleteBinary
  \/ HandleCompleteText

SpecRecover == InitRecover /\ [][NextRecover]_vars

\* GET /api/chats/[chatId] alone, over every requester, id and stored chat.
InitGet ==
  /\ GetInit
  /\ requestsMade = 0
  /\ dbExists = FALSE
  /\ dbMessages = <<>>
  /\ addArgs = <<>>
  /\ addPc = <<>>
  /\ addLocal = <<>>
  /\ PostIdle
  /\ AdapterIdle
  /\ NormalizerIdle
  /\ script = <<>>
  /\ activeChatId = <<>>
  /\ SrvInit
  /\ ClientInit
  /\ HookInit

NextGet == Get

SpecGet == InitGet /\ [][NextGet]_vars

\* addMessageToChat called MaxWriters times at once on one chat, the calls'
\* awaits interleaved in every order.
InitStore ==
  /\ StoreInit
  /\ requestsMade = 0
  /\ getSession = [def |-> FALSE, val |-> <<>>]
  /\ getChatId = <<>>
  /\ getStored = [exists |-> FALSE]
  /\ getPc = "idle"
  /\ getResponse = [kind |-> "none"]
  /\ PostIdle
  /\ AdapterIdle
  /\ NormalizerIdle
  /\ script = <<>>
  /\ activeChatId = <<>>
  /\ SrvInit
  /\ ClientInit
  /\ HookInit

NextStore == Store

SpecStore == InitStore /\ [][NextStore]_vars

\* POST serving the requests of one user within 24 hours, one after the
\* other, with an OpenAI key configured and no chat created in the window
\* before the first request.
InitQuota ==
  /\ postEnv = [AI_PROVIDER |-> Undefined, OPENAI_API_KEY |-> Str(KeyValue),
                GEMINI_API_KEY |-> Undefined, ANTHROPIC_API_KEY |-> Undefined]
  /\ PostInit
  /\ postReq \in UserRequests
  /\ postChat \in StoredChats
  /\ Truthy(postReq.chatId) \/ ~postChat.exists
  /\ requestsMade = 1
  /\ getSession = [def |-> FALSE, val |-> <<>>]
  /\ getChatId = <<>>
  /\ getStored = [exists |-> FALSE]
  /\ getPc = "idle"
  /\ getResponse = [kind |-> "none"]
  /\ dbExists = FALSE
  /\ dbMessages = <<>>
  /\ addArgs = <<>>
  /\ addPc = <<>>
  /\ addLocal = <<>>
  /\ AdapterIdle
  /\ NormalizerIdle
  /\ script = <<>>
  /\ activeChatId = <<>>
  /\ SrvInit
  /\ ClientInit
  /\ HookInit

NextQuota ==
  \/ Post
  \/ NextRequest

SpecQuota == InitQuota /\ [][NextQuota]_vars

\* useChat on the chat page, entered with a handoff from the homepage or
\* without one: the user sends up to MaxSends messages, and the responses
\* and the ends of the streams arrive in any order.
InitTurns ==
  /\ handoff \in BOOLEAN
  /\ inFlight = 0
  /\ handedStreams = <<>>
  /\ sends = 0
  /\ hookPc = "idle"
  /\ chatHistory = <<>>
  /\ isLoading = FALSE
  /\ isStreaming = FALSE
  /\ completesHandled = 0
  /\ currentChat \in {Undefined, Str(RouteChatId)}
  /\ fetched = <<>>
  /\ recoveries = <<>>
  /\ script = <<>>
  /\ activeChatId = <<>>
  /\ SrvInit
  /\ ClientInit
  /\ PostIdle
  /\ AdapterIdle
  /\ NormalizerIdle
  /\ ExtIdle

NextTurns == Turns

SpecTurns == InitTurns /\ [][NextTurns]_vars

\* End to end: handleStreaming feeding consumeSSEStream through the response
\* body, which hands the enqueued bytes on in chunks of any size.
Chunk(d) == [kind |-> "chunk", content |-> d]

\* The provider scripts of the end-to-end runs: "Hel" then "lo!"; "Hel" then
\* a throw; an empty delta, then e-acute and a line feed.
EndToEndScripts ==
  { << Chunk(<<72, 101, 108>>), Chunk(<<108, 111, 33>>) >>,
    << Chunk(<<72, 101, 108>>), [kind |-> "throw", content |-> <<>>] >>,
    << Chunk(<<>>), Chunk(<<233, 10>>) >> }

\* POST hands handleStreaming the identifier of the chat it loaded or created.
Init ==
  /\ script \in EndToEndScripts
  /\ activeChatId = <<99, 49>>
  /\ SrvInit
  /\ ClientInit
  /\ HookInit
  /\ PostIdle
  /\ AdapterIdle
  /\ NormalizerIdle
  /\ ExtIdle

Next ==
  \/ Server
  \/ Decoder

Spec == Init /\ [][Next]_vars

\* ------------------------------------------------- reading the response

\* The event one enqueued byte chunk carries: the members of the JSON object
\* between "data: " and the blank line (ok is FALSE when it is no such frame).
ParsedFrame(bytes) ==
  LET text == Utf8DecodeStream(<<>>, bytes).text IN
  IF StartsWith(text, DataPrefix) /\ Len(text) >= Len(DataPrefix) + Len(FrameEnd)
       /\ SubSeq(text, Len(text) - 1, Len(text)) = FrameEnd
    THEN JsonParse(SubSeq(text, Len(DataPrefix) + 1, Len(text) - Len(FrameEnd)))
    ELSE ParseFail

FrameType(bytes) == Field(ParsedFrame(bytes).val, K_type)
FrameContent(bytes) == Field(ParsedFrame(bytes).val, K_content)
IsFrame(bytes, type) == ParsedFrame(bytes).ok /\ FrameType(bytes) = type

\* The frames of one type among those enqueued, in order.
FramesOfType(type) == SelectSeq(enqueued, LAMBDA b : IsFrame(b, type))

\* The non-empty deltas the provider has yielded so far, in order.
YieldedDeltas ==
  LET got == SelectSeq(SubSeq(script, 1, pIdx),
                       LAMBDA e : e.kind = "chunk" /\ e.content # <<>>)
  IN [i \in 1..Len(got) |-> got[i].content]

\* The callbacks of one name invoked so far, in order: their arguments.
ArgsOf(cb) ==
  LET got == SelectSeq(calls, LAMBDA c : c.cb = cb)
  IN [i \in 1..Len(got) |-> got[i].arg]

\* ------------------------------------------------------------------ claims

\* C2: the frames handleStreaming enqueues are, in order, one chat_metadata
\* frame carrying activeChatId, then one content frame per non-empty provider
\* chunk, in the provider's order and carrying that chunk's delta only, then
\* on success one done frame, after which the stream is closed and nothing
\* more is enqueued.
C2_FrameOrder ==
  IF srvPc = "start" THEN enqueued = <<>>
  ELSE
    /\ Len(enqueued) = 1 + Len(YieldedDeltas) + (IF srvPc = "finished" THEN 1 ELSE 0)
    /\ IsFrame(enqueued[1], V_chat_metadata)
    /\ Field(ParsedFrame(enqueued[1]).val, K_id) = activeChatId
    /\ \A i \in 1..Len(YieldedDeltas) :
         /\ IsFrame(enqueued[i + 1], V_content)
         /\ FrameContent(enqueued[i + 1]) = YieldedDeltas[i]
    /\ srvPc = "finished" => IsFrame(enqueued[Len(enqueued)], V_done)
    /\ streamState = "closed" <=> srvPc = "finished"

\* C2 witness: a finished stream with two content frames.
C2_Witness ==
  /\ srvPc = "finished"
  /\ streamState = "closed"
  /\ Len(FramesOfType(V_content)) = 2
  /\ Len(enqueued) = 4

\* C3: once the provider's lazy stream has thrown, the response stream is
\* errored, no done frame is enqueued and addMessageToChat is not called, so
\* nothing of the text accumulated so far is stored.
C3_ThrowAborts ==
  (pIdx > 0 /\ script[pIdx].kind = "throw") =>
    /\ streamState = "errored"
    /\ FramesOfType(V_done) = <<>>
    /\ addCalls = <<>>
    /\ persisted = <<>>

\* C3 witness: the provider threw after text had been accumulated and sent.
C3_Witness ==
  /\ pIdx > 0
  /\ script[pIdx].kind = "throw"
  /\ fullResponse # <<>>
  /\ Len(FramesOfType(V_content)) = 1

\* C4: handleStreaming calls addMessageToChat for the assistant turn at most
\* once, and with the concatenation, in frame order, of the content fields of
\* the content frames enqueued on the response stream.
C4_PersistedIsConcat ==
  /\ Len(addCalls) <= 1
  /\ addCalls # <<>> =>
       LET frames == FramesOfType(V_content) IN
       /\ addCalls[1].content = Concat([i \in 1..Len(frames) |-> FrameContent(frames[i])])
       /\ addCalls[1].role = "assistant"
       /\ addCalls[1].chatId = activeChatId

\* C4 witness: addMessageToChat was called after two content frames.
C4_Witness ==
  /\ Len(addCalls) = 1
  /\ Len(FramesOfType(V_content)) = 2
  /\ Len(addCalls[1].content) > 3

\* The content a line adds to the running total.
LineContent(ls, i) ==
  LET r == handleSSELine(ls[i]) IN IF r.cb = "onContent" THEN r.arg ELSE <<>>

\* The text consumeSSEStream accumulates when read() returns all the bytes
\* as one chunk.
WholeText(bytes) ==
  LET ls == SplitLines(Utf8DecodeStream(<<>>, bytes).text)
  IN Concat([i \in 1..Len(ls) |-> LineContent(ls, i)])

\* C1: over a stream of well-formed frames, consumeSSEStream returns the same
\* text however the bytes are cut into read() chunks: the text it returns
\* when they arrive as one chunk.
C1_SplitIndependent ==
  (decodeState = "resolved" /\ enqueued \in WellFormedStreams) =>
    result = WholeText(Wire)

\* d1 \o ... \o di
RunningTotal(ds, i) == Concat(SubSeq(ds, 1, i))

\* C5: end to end, when the provider has yielded the non-empty deltas
\* d1..dn and closed, onContent has received d1, d1+d2, ..., d1+...+dn,
\* consumeSSEStream returns d1+...+dn and that same text is the one stored
\* for the assistant turn.
C5_EndToEnd ==
  decodeState = "resolved" =>
    LET ds == YieldedDeltas IN
    /\ ArgsOf("onContent") = [i \in 1..Len(ds) |-> RunningTotal(ds, i)]
    /\ result = RunningTotal(ds, Len(ds))
    /\ persisted = <<RunningTotal(ds, Len(ds))>>

\* C6: the values handed to onContent grow strictly in length, each is the
\* one before it followed by the delta just read, and the latest one is the
\* running total.
C6_Monotone ==
  LET shown == ArgsOf("onContent") IN
  /\ \A i \in 1..Len(shown) :
       LET before == IF i = 1 THEN <<>> ELSE shown[i - 1] IN
       /\ Len(shown[i]) > Len(before)
       /\ StartsWith(shown[i], before)
  /\ accumulated = IF shown = <<>> THEN <<>> ELSE shown[Len(shown)]

\* C6 witness: onContent was called twice.
C6_Witness ==
  /\ Len(ArgsOf("onContent")) = 2
  /\ decodeState = "resolved"

\* A line with the data prefix whose payload JSON.parse rejects.
IsCorruptLine(line) ==
  /\ StartsWith(line, DataPrefix)
  /\ Trim(Slice(line, 6)) # <<>>
  /\ ~JsonParse(Trim(Slice(line, 6))).ok

\* The contents of the content frames of the test streams.
TestContents == (Deltas \ {<<>>}) \cup {<<97>>, <<98>>}

\* C7: handling a data line whose payload fails to parse invokes no
\* callback, leaves the running total as it is and neither ends nor fails
\* the decode; a valid content line, whenever it is handled, is appended.
C7_CorruptLineSkipped ==
  [][ (decodeState = "reading" /\ lines # <<>>) =>
        /\ IsCorruptLine(Head(lines)) =>
             /\ calls' = calls
             /\ accumulated' = accumulated
             /\ decodeState' = "reading"
             /\ locked' = locked
             /\ lines' = Tail(lines)
        /\ \A c \in TestContents :
             Head(lines) = DataPrefix \o ContentJson(c) =>
               accumulated' = accumulated \o c ]_vars

\* C7 witness: the stream with a corrupted line between two valid frames
\* was read to its end and both valid frames were accumulated.
C7_Witness ==
  /\ enqueued \in CorruptedStreams
  /\ decodeState = "resolved"
  /\ result = <<97, 98>>

\* C8: after read() has rejected, the lock is released, onError has been
\* invoked and the turn has been completed through onComplete with the
\* empty string, never with the text accumulated before the error.
C8_ReadErrorFailsTurn ==
  decodeState = "rejected" =>
    /\ ~locked
    /\ ArgsOf("onError") # <<>>
    /\ ArgsOf("onComplete") = << <<>> >>

\* C8 witness: read() rejected after content had been accumulated.
C8_Witness ==
  /\ decodeState = "rejected"
  /\ accumulated # <<>>
  /\ ArgsOf("onComplete") = << <<>> >>

\* C9: consumeSSEStream is started at most once on the message's stream.
C9_SingleDecode == consumeStarts <= 1

\* C10: once the message is unmounted the reader lock is released and no
\* further callback is invoked.
C10_UnmountCancels ==
  [][ (everMounted /\ ~mounted) => (~locked /\ calls' = calls) ]_vars

\* The failure messages handleSendMessage can show.
FailureMessages ==
  {DefaultMessage, RateLimitMessage, NoBodyMessage, FetchFailedMessage,
   SignInMessage}

\* C11: when the turn has failed, whether the request was rejected before
\* streaming started or the byte stream broke after it had, the chat history
\* ends with the user entry followed by one assistant entry that carries a
\* failure message; a broken stream is never finalised as a completion.
C11_FailureShown ==
  (hookPc = "failed" \/ (hookPc = "settled" /\ decodeState = "rejected")) =>
    LET n == Len(chatHistory) IN
    /\ n = 2
    /\ chatHistory[1].type = "user"
    /\ chatHistory[n].type = "assistant"
    /\ ~chatHistory[n].isStreaming
    /\ chatHistory[n].content \in FailureMessages

\* A done frame of the stream has been read to its end.
DoneFrameRead ==
  \E k \in 1..Len(enqueued) :
    enqueued[k] = FrameBytes(DoneJson) /\ rdPos >= EndOffset(k)

\* C12: consumeSSEStream resolves only when read() reports end-of-stream,
\* and then with the running total; handling a done line invokes no
\* callback, leaves the running total as it is and does not end the decode;
\* a content line handled after a done frame was read is still accumulated.
C12_DoneFrameIgnored ==
  [][ /\ (decodeState = "reading" /\ decodeState' = "resolved") =>
           /\ streamState = "closed"
           /\ rdPos = Len(Wire)
           /\ result' = accumulated
      /\ (decodeState = "reading" /\ lines # <<>>) =>
           /\ Head(lines) = DataPrefix \o DoneJson =>
                /\ calls' = calls
                /\ accumulated' = accumulated
                /\ decodeState' = "reading"
                /\ locked' = locked
           /\ \A c \in TestContents :
                (Head(lines) = DataPrefix \o ContentJson(c) /\ DoneFrameRead) =>
                  accumulated' = accumulated \o c ]_vars

\* C12 witness: the stream content, done, content was read to its end and
\* the content frame after the done frame is part of the result.
C12_Witness ==
  /\ enqueued[2] = FrameBytes(DoneJson)
  /\ Len(enqueued) = 3
  /\ decodeState = "resolved"
  /\ result = <<233, 10, 97>>

\* The identifiers of the chat_metadata frames of the test streams.
TestIds == {<<99, 49>>}

\* The lines handleSSELine has a callback for: a chat_metadata frame with an
\* id, a content frame with content.
CallbackLines ==
  {DataPrefix \o ChatMetaJson(id) : id \in TestIds}
    \cup {DataPrefix \o ContentJson(c) : c \in TestContents}

\* C13: handling a chat_metadata line with an id invokes onChatData with
\* that id and nothing else; handling a content line with content invokes
\* onContent with the new running total and nothing else; handling any
\* other line invokes no callback and leaves the running total as it is.
C13_DispatchExact ==
  [][ (decodeState = "reading" /\ lines # <<>>) =>
        /\ \A id \in TestIds :
             Head(lines) = DataPrefix \o ChatMetaJson(id) =>
               /\ calls' = Append(calls, [cb |-> "onChatData", arg |-> id])
               /\ accumulated' = accumulated
        /\ \A c \in TestContents :
             Head(lines) = DataPrefix \o ContentJson(c) =>
               /\ calls' = Append(calls, [cb |-> "onContent", arg |-> accumulated \o c])
               /\ accumulated' = accumulated \o c
        /\ Head(lines) \notin CallbackLines =>
             /\ calls' = calls
             /\ accumulated' = accumulated ]_vars

\* C13 witness: the stream of lines without a callback was read to its end;
\* the only callbacks are those of its closing content frame.
C13_Witness ==
  /\ enqueued \in IgnoredStreams
  /\ decodeState = "resolved"
  /\ calls = << [cb |-> "onContent", arg |-> <<97>>],
                [cb |-> "onComplete", arg |-> <<97>>] >>

\* The enumeration of providers, in the fixed priority order.
Priority == <<P_openai, P_gemini, P_claude>>

\* The members of the enumeration, as string values.
ValidProviders == {Str(Priority[i]) : i \in 1..3}

\* The credential variable of the i-th provider.
KeyAt(i) ==
  IF i = 1 THEN postEnv.OPENAI_API_KEY
  ELSE IF i = 2 THEN postEnv.GEMINI_API_KEY
  ELSE postEnv.ANTHROPIC_API_KEY

\* The positions in Priority of the providers whose key is configured.
Keyed == {i \in 1..3 : Truthy(KeyAt(i))}

\* C14: once POST has resolved a provider whose API key is not configured,
\* it has answered with the status-400 configuration error naming that
\* provider, has made no createChat or addMessageToChat call and no provider
\* call, and the list getAvailableProviders returned does not hold it.
C14_UnconfiguredRejected ==
  (postProvider.def /\ \A i \in Keyed : Priority[i] # postProvider.val) =>
    /\ postPc = "done"
    /\ postResponse = [kind |-> "json", status |-> 400,
         error |-> NotConfiguredHead \o postProvider.val \o NotConfiguredTail]
    /\ storageCalls = <<>>
    /\ providerCalls = <<>>
    /\ \A i \in 1..Len(postAvailable) : postAvailable[i] # postProvider.val

\* C14 witness: override "gemini" without GEMINI_API_KEY while OpenAI is
\* configured, rejected with status 400.
C14_Witness ==
  /\ postReq.provider = Str(P_gemini)
  /\ ~postEnv.GEMINI_API_KEY.def
  /\ Truthy(postEnv.OPENAI_API_KEY)
  /\ postProvider = Str(P_gemini)
  /\ postResponse.kind = "json"
  /\ postResponse.status = 400

\* C15: a requested provider that is one of openai, gemini, claude is the
\* provider getActiveProvider returns, whatever AI_PROVIDER and the API keys
\* are.
C15_OverrideWins ==
  (postProvider.def /\ postReq.provider \in ValidProviders) =>
    postProvider = postReq.provider

\* C15 witness: "gemini" requested with AI_PROVIDER = claude, no Gemini key
\* and an OpenAI key.
C15_Witness ==
  /\ postProvider = Str(P_gemini)
  /\ postReq.provider = Str(P_gemini)
  /\ postEnv.AI_PROVIDER = Str(P_claude)
  /\ ~Truthy(postEnv.GEMINI_API_KEY)
  /\ Truthy(postEnv.OPENAI_API_KEY)

\* C16: without a valid override, an AI_PROVIDER that is a member of the
\* enumeration is the provider getActiveProvider returns, whichever API
\* keys are configured (so the keys are not consulted).
C16_SettingWins ==
  (/\ postProvider.def
   /\ postReq.provider \notin ValidProviders
   /\ postEnv.AI_PROVIDER \in ValidProviders) =>
    postProvider = postEnv.AI_PROVIDER

\* C16 witness: AI_PROVIDER = claude without an Anthropic key, an OpenAI key
\* configured, and an override that is not a member.
C16_Witness ==
  /\ postProvider = Str(P_claude)
  /\ postReq.provider = Str(<<120>>)
  /\ postEnv.AI_PROVIDER = Str(P_claude)
  /\ ~Truthy(postEnv.ANTHROPIC_API_KEY)
  /\ Truthy(postEnv.OPENAI_API_KEY)

\* The first provider in priority order whose key is configured, openai
\* when none is.
FirstKeyed ==
  IF Keyed = {} THEN P_openai
  ELSE Priority[CHOOSE i \in Keyed : \A j \in Keyed : i <= j]

\* C17 as stated: when neither the override nor AI_PROVIDER is a member of
\* the enumeration, getActiveProvider returns the first provider in the
\* order openai, gemini, claude whose API key is configured, and openai when
\* none is.
C17_AutoDetectStrict ==
  (/\ postProvider.def
   /\ postReq.provider \notin ValidProviders
   /\ postEnv.AI_PROVIDER \notin ValidProviders) =>
    postProvider.val = FirstKeyed

\* AI_PROVIDER names a member of the enumeration in some letter case.
SettingNamesProvider ==
  /\ postEnv.AI_PROVIDER.def
  /\ Str(ToLowerCase(postEnv.AI_PROVIDER.val)) \in ValidProviders

\* C17 amended: when the override is not a member of the enumeration and
\* AI_PROVIDER, lower-cased, is not one either, getActiveProvider returns
\* the first provider in the order openai, gemini, claude whose API key is
\* configured, and openai when none is.
C17_AutoDetect ==
  (/\ postProvider.def
   /\ postReq.provider \notin ValidProviders
   /\ ~SettingNamesProvider) =>
    postProvider.val = FirstKeyed

\* C17 witness: an override and a setting that name no provider, and only
\* the Anthropic key configured.
C17_Witness ==
  /\ postProvider = Str(P_claude)
  /\ postReq.provider = Str(<<71, 101, 109, 105, 110, 105>>)
  /\ postEnv.AI_PROVIDER = Str(<<120>>)
  /\ Keyed = {3}

\* C18: the list getAvailableProviders returns holds exactly the providers
\* whose API key is configured, in the order openai, gemini, claude, each
\* once.
C18_AvailableExact ==
  postProvider.def =>
    /\ \A i \in 1..3 :
         (i \in Keyed) <=> (\E k \in 1..Len(postAvailable) : postAvailable[k] = Priority[i])
    /\ \A k, l \in 1..Len(postAvailable) :
         k < l => \E i, j \in 1..3 :
                    /\ i < j
                    /\ postAvailable[k] = Priority[i]
                    /\ postAvailable[l] = Priority[j]
    /\ Len(postAvailable) = Cardinality(Keyed)

\* C18 witness: an empty OpenAI key and the other two keys configured give
\* gemini, claude.
C18_Witness ==
  /\ postProvider.def
  /\ postEnv.OPENAI_API_KEY = Str(<<>>)
  /\ postAvailable = <<P_gemini, P_claude>>

\* The text delta a native event carries, "" when it carries none.
TextDelta(e) ==
  IF adProvider = P_gemini THEN e.text
  ELSE IF adProvider = P_claude
    THEN IF e.type = "content_block_delta" /\ e.delta.type = "text_delta"
           THEN e.delta.text ELSE <<>>
  ELSE IF e.choices = <<>> \/ ~e.choices[1].delta.content.def THEN <<>>
  ELSE e.choices[1].delta.content.val

\* The non-empty text deltas of the events consumed so far, in order.
ConsumedDeltas ==
  LET got == SelectSeq(SubSeq(adEvents, 1, adIdx), LAMBDA e : TextDelta(e) # <<>>)
  IN [i \in 1..Len(got) |-> TextDelta(got[i])]

\* C19: for each adapter, the StreamChunks yielded so far are, in order, one
\* per consumed event that carries a non-empty text delta, with that delta
\* as content; none has empty content.
C19_ChunkPerDelta ==
  /\ adYielded = [i \in 1..Len(ConsumedDeltas) |-> [content |-> ConsumedDeltas[i]]]
  /\ \A i \in 1..Len(adYielded) : adYielded[i].content # <<>>

\* C19 witness: a stream of an event without text and one text delta has
\* ended with one chunk yielded.
C19_Witness ==
  /\ adPc = "done"
  /\ adMode = "stream"
  /\ Len(adEvents) = 2
  /\ TextDelta(adEvents[1]) = <<>>
  /\ Len(adYielded) = 1

\* The name under which a provider's request carries the maximum-token
\* value: maxOutputTokens for Gemini, max_tokens for the others.
MaxTokensOf(req) ==
  IF req.api = "gemini.getGenerativeModel" THEN req.maxOutputTokens
  ELSE req.max_tokens

\* C20: every provider-native request carries temperature =
\* config.temperature (0.7 when absent) and a maximum-token value =
\* config.maxTokens (4096 when absent).
C20_RequestCarriesConfig ==
  \A i \in 1..Len(adRequests) :
    /\ "temperature" \in DOMAIN adRequests[i]
    /\ adRequests[i].temperature =
         (IF adConfig.temperature.def THEN adConfig.temperature.val
          ELSE DefaultTemperature)
    /\ MaxTokensOf(adRequests[i]) =
         (IF adConfig.maxTokens.def THEN adConfig.maxTokens.val
          ELSE DefaultMaxTokens)

\* toGeminiMessages has run on nmMessages.
GeminiDone == nmPc = "done" /\ nmProvider = P_gemini

\* How many of the messages before the last one have the role user.
EarlierUserTurns(messages) ==
  Cardinality({i \in 1..(Len(messages) - 1) : messages[i].role = "user"})

\* C21: toGeminiMessages' lastMessage is the content of the last input
\* message when that message's role is user and the empty string otherwise
\* (another role, or no message at all); a user message that is not the
\* last one is never taken as the final turn: each stays in history.
C21_FinalTurn ==
  GeminiDone =>
    LET n == Len(nmMessages) IN
    /\ nmShape.lastMessage =
         (IF n > 0 /\ nmMessages[n].role = "user"
            THEN nmMessages[n].content ELSE <<>>)
    /\ Len(SelectSeq(nmShape.history, LAMBDA h : h.role = "user"))
         = EarlierUserTurns(nmMessages)

\* C21 witness: of two user messages around an assistant message, only the
\* last has become the final turn.
C21_Witness ==
  /\ GeminiDone
  /\ nmMessages = << [role |-> "user", content |-> <<97>>],
                     [role |-> "assistant", content |-> <<>>],
                     [role |-> "user", content |-> <<98>>] >>
  /\ nmShape.lastMessage = <<98>>
  /\ Len(nmShape.history) = 2

\* The history entries the messages `kept` are relayed as.
Relayed(kept) ==
  [i \in 1..Len(kept) |->
     [role |-> IF kept[i].role = "assistant" THEN "model" ELSE "user",
      parts |-> << [text |-> kept[i].content] >>]]

\* The messages but the last one when its role is user.
ButFinalUserTurn(messages) ==
  LET n == Len(messages) IN
  IF n > 0 /\ messages[n].role = "user" THEN SubSeq(messages, 1, n - 1)
  ELSE messages

\* C22 as stated: history holds every input message, in input order, as
\* {role, parts: [{text: content}]} with role model for assistant and user
\* for anything else, except only the last message when its role is user.
C22_EveryMessageRelayed ==
  GeminiDone => nmShape.history = Relayed(ButFinalUserTurn(nmMessages))

\* C22: history holds every input message whose role is not system, in
\* input order, as {role, parts: [{text: content}]} with role model for
\* assistant and user otherwise, except only the last message when its
\* role is user; a last message with the role assistant stays in history.
C22_NonSystemRelayed ==
  GeminiDone =>
    nmShape.history =
      Relayed(SelectSeq(ButFinalUserTurn(nmMessages),
                        LAMBDA m : m.role # "system"))

\* C22 witness: after a system and a user message, a last message of the
\* assistant is in history as the model's.
C22_Witness ==
  /\ GeminiDone
  /\ nmMessages = << [role |-> "system", content |-> <<97>>],
                     [role |-> "user", content |-> <<98>>],
                     [role |-> "assistant", content |-> <<97>>] >>
  /\ Len(nmShape.history) = 2
  /\ nmShape.history[2].role = "model"

RECURSIVE JoinLines(_)
\* texts.join("\n")
JoinLines(texts) ==
  IF texts = <<>> THEN <<>>
  ELSE IF Len(texts) = 1 THEN texts[1]
  ELSE JoinLines(SubSeq(texts, 1, Len(texts) - 1))
         \o <<10>> \o texts[Len(texts)]

\* The contents of the messages with the role system, in input order.
SystemContents(messages) ==
  LET sys == SelectSeq(messages, LAMBDA m : m.role = "system")
  IN [i \in 1..Len(sys) |-> sys[i].content]

NonSystem(messages) == SelectSeq(messages, LAMBDA m : m.role # "system")

\* One system message carrying the instruction string, when there is one.
SystemTurn(system) ==
  IF system # <<>> THEN << [role |-> "system", content |-> system] >>
  ELSE <<>>

\* The canonical list read back from a provider's shape: the system string
\* first, then the history or turn list in order (model read as assistant),
\* then the final turn as a user message.
Canonical(provider, shape) ==
  IF provider = P_gemini
    THEN SystemTurn(shape.systemInstruction)
           \o [i \in 1..Len(shape.history) |->
                 [role |-> IF shape.history[i].role = "model"
                             THEN "assistant" ELSE "user",
                  content |-> shape.history[i].parts[1].text]]
           \o (IF shape.lastMessage # <<>>
                 THEN << [role |-> "user", content |-> shape.lastMessage] >>
                 ELSE <<>>)
  ELSE IF provider = P_claude
    THEN SystemTurn(shape.system) \o shape.messages
  ELSE shape.messages

\* The shape a provider's adapter gives the messages.
ShapeOf(provider, messages) ==
  IF provider = P_gemini THEN toGeminiMessages(messages)
  ELSE IF provider = P_claude THEN toAnthropicMessages(messages)
  ELSE OpenaiMessages(messages)

\* C24, reconstruction: the non-system role/content pairs read back from
\* the output are those of the input, in their order and unchanged, so
\* every non-system message is accounted for.
C24_PairsKept ==
  nmPc = "done" =>
    NonSystem(Canonical(nmProvider, nmShape)) = NonSystem(nmMessages)

\* C24, idempotence: normalising the canonical list read back from an
\* output yields that output again.
C24_Idempotent ==
  nmPc = "done" =>
    ShapeOf(nmProvider, Canonical(nmProvider, nmShape)) = nmShape

AcceptedText(t) ==
  /\ t # HelloWorld
  /\ Len(t) > 10
  /\ \/ (45 \in {t[i] : i \in 1..Len(t)}) /\ Len(t) > 20
     \/ Len(t) > 15

\* finalContent = [{id: t}]
OnlyId(t) == ArrayValue(<< ObjectValue(<<"id">>, << StringValue(t) >>) >>)

\* C25: isValidChatId(id) is true exactly when id is not "hello-world", id
\* is longer than 10, and either id has a hyphen and is longer than 20 or
\* id is longer than 15: the recovery from [{id}] returns id in exactly
\* these cases.
C25_AcceptanceExact ==
  \A n \in 1..Len(recoveries) : \A t \in IdTexts :
    recoveries[n].content = OnlyId(t) =>
      recoveries[n].result = (IF AcceptedText(t) THEN Str(t) ELSE Undefined)

\* C25 witness: the recovery from [{id}] has accepted an id of 16 letters.
C25_Witness ==
  /\ Len(recoveries) = 1
  /\ recoveries[1].content = OnlyId(Letters(16))
  /\ recoveries[1].result = Str(Letters(16))

\* The identifier an object offers itself: its chatId when that is an
\* accepted string, else its id when that is.
OwnCandidate(node) ==
  LET c == Member(node, "chatId")
      i == Member(node, "id")
  IN IF c.kind = "string" /\ AcceptedText(c.text) THEN << c.text >>
     ELSE IF i.kind = "string" /\ AcceptedText(i.text) THEN << i.text >>
     ELSE <<>>

RECURSIVE Candidates(_)
\* The identifiers of a value in depth-first pre-order: an object that
\* offers one hides its children, otherwise the children's follow in order.
Candidates(node) ==
  IF node.kind \notin {"array", "object"} THEN <<>>
  ELSE IF OwnCandidate(node) # <<>> THEN OwnCandidate(node)
  ELSE Concat([k \in 1..Len(node.items) |-> Candidates(node.items[k])])

\* C26: extractChatIdFromContent searches depth-first in pre-order, an
\* object's accepted chatId before its accepted id and both before its
\* children (array elements in index order), and returns the first
\* identifier of that order: later candidates never replace it.
C26_FirstInPreOrder ==
  \A n \in 1..Len(recoveries) :
    LET found == Candidates(recoveries[n].content)
    IN recoveries[n].result =
         (IF found = <<>> THEN Undefined ELSE Str(found[1]))

\* C26 witness: below an id that is too short, a node with an accepted
\* chatId and an accepted id, and a second element with another accepted
\* chatId: the first node's chatId is returned.
C26_Witness ==
  /\ Len(recoveries) = 1
  /\ recoveries[1].content =
       ArrayValue(<<
         ObjectValue(<<"id", "data">>,
           << StringValue(Short),
              ObjectValue(<<"chatId", "id">>,
                << StringValue(Letters(16)), StringValue(Uuid) >>) >>),
         ObjectValue(<<"chatId">>, << StringValue(Uuid) >>) >>)
  /\ recoveries[1].result = Str(Letters(16))

RECURSIVE FieldTexts(_)
\* The texts that are the string chatId or id member of some node of a
\* value, at any depth.
FieldTexts(node) ==
  IF node.kind \notin {"array", "object"} THEN {}
  ELSE {Member(node, k).text :
          k \in {f \in {"chatId", "id"} : Member(node, f).kind = "string"}}
       \cup UNION {FieldTexts(node.items[k]) : k \in 1..Len(node.items)}

\* C27: extractChatIdFromContent returns a value only if it is the string
\* chatId or id member of some node and passes isValidChatId (never
\* "hello-world", never a string of 10 characters or fewer); it returns
\* undefined for an empty array and for every structure none of whose
\* nodes has such a member, as [{id: "hello-world"}] and [{id: "short"}],
\* and returns the value for [{chatId: "a1b2c3d4-e5f6-7890-aaaa-bbbbccccdddd"}].
C27_OnlyAcceptedFields ==
  \A n \in 1..Len(recoveries) :
    LET content == recoveries[n].content
        found == recoveries[n].result
        accepted == {t \in FieldTexts(content) : AcceptedText(t)}
    IN /\ found.def =>
            /\ found.val \in accepted
            /\ found.val # HelloWorld
            /\ Len(found.val) > 10
       /\ accepted = {} => found = Undefined
       /\ content \in {ArrayValue(<<>>), OnlyId(HelloWorld), OnlyId(Short)}
            => found = Undefined
       /\ content = ArrayValue(<< ObjectValue(<<"chatId">>,
                                    << StringValue(Uuid) >>) >>)
            => found = Str(Uuid)

\* C27 witness: the recovery from [{chatId: "a1b2c3d4-..."}] has returned
\* the chatId.
C27_Witness ==
  /\ Len(recoveries) = 1
  /\ recoveries[1].content =
       ArrayValue(<< ObjectValue(<<"chatId">>, << StringValue(Uuid) >>) >>)
  /\ recoveries[1].result = Str(Uuid)

\* C28: handleStreamingComplete runs extractChatIdFromContent only when no
\* current chat is known at stream completion; whenever a current chat is
\* known the recovery is not invoked and chat details are fetched for the
\* hook's own chatId only, never for a recovered identifier.
C28_RecoveryOnlyWithoutChat ==
  /\ recoveries # <<>> => ~currentChat.def
  /\ currentChat.def =>
       /\ recoveries = <<>>
       /\ \A n \in 1..Len(fetched) : fetched[n] = RouteChatId

\* C28 witness: with a current chat known, handleStreamingComplete has
\* served a final content that is an array holding an accepted chatId, and
\* has fetched the details of chatId alone.
C28_Witness ==
  /\ currentChat.def
  /\ hookPc = "settled"
  /\ chatHistory[2].content =
       ArrayValue(<< ObjectValue(<<"chatId">>, << StringValue(Uuid) >>) >>)
  /\ recoveries = <<>>
  /\ fetched = << RouteChatId >>

\* POST has ended in the non-streaming path without a completion.
CompletionFailed ==
  /\ postPc = "done"
  /\ ~postReq.streaming
  /\ providerCalls # <<>>
  /\ ~(postResponse.kind = "json" /\ postResponse.status = 200)

\* C29: in the non-streaming path, when the provider's completion fails
\* the whole operation fails: POST answers with the failure response
\* (status 500, "Failed to process request"), addMessageToChat is not
\* called for the assistant turn and no assistant message is stored for it.
C29_CompletionFailureAnswered ==
  CompletionFailed =>
    /\ postResponse = [kind |-> "json", status |-> 500, error |-> FailedText]
    /\ \A n \in 1..Len(storageCalls) : storageCalls[n].role # "assistant"
    /\ postChat.messages[Len(postChat.messages)] = NewUserMessage

\* C29, the storage half alone: no assistant turn is stored when the
\* completion fails.
C29_NothingStored ==
  CompletionFailed =>
    /\ \A n \in 1..Len(storageCalls) : storageCalls[n].role # "assistant"
    /\ postChat.messages[Len(postChat.messages)] = NewUserMessage

\* C30: when the byte stream has ended normally the reader lock is
\* released and onComplete has been invoked exactly once for the message,
\* with the text consumeSSEStream returned; while the stream is still being
\* read successfully onComplete has not been invoked at all, neither with
\* the empty string nor with any other content.
C30_CompleteOnceAtEnd ==
  /\ decodeState = "resolved" =>
       /\ ~locked
       /\ ArgsOf("onComplete") = << result >>
  /\ decodeState = "reading" => ArgsOf("onComplete") = <<>>

\* C31: with a non-empty activeChatId a done frame is enqueued only after
\* addMessageToChat for the assistant turn has completed successfully; when
\* that call fails after the content frames were sent, the stream is
\* errored and no done frame is sent.
C31_DoneAfterPersist ==
  /\ (activeChatId # <<>> /\ FramesOfType(V_done) # <<>>) =>
       /\ Len(addCalls) = 1
       /\ persisted = << addCalls[1].content >>
  /\ (srvPc = "failed" /\ addCalls # <<>>) =>
       /\ persisted = <<>>
       /\ streamState = "errored"
       /\ FramesOfType(V_done) = <<>>

\* C31 witness: addMessageToChat has failed after two content frames were
\* sent; the stream is errored.
C31_Witness ==
  /\ srvPc = "failed"
  /\ addCalls # <<>>
  /\ Len(FramesOfType(V_content)) = 2
  /\ streamState = "errored"

\* How many messages the turn has stored so far: the user message, and the
\* assistant message once the completion has been answered.
TurnAppends ==
  1 + (IF postResponse.kind = "json" /\ postResponse.status = 200
         THEN 1 ELSE 0)

\* The chat's messages as they were stored before the request.
StoredBefore ==
  SubSeq(postChat.messages, 1, Len(postChat.messages) - TurnAppends)

\* C32: the message list POST hands to the provider is the system prompt,
\* then the chat's stored history in stored order, then the new user
\* message, once and last: for an existing chat the history as it was
\* before the user message was stored, for a new chat nothing.
C32_MessageList ==
  \A n \in 1..Len(providerCalls) :
    /\ providerCalls[n].messages =
         << [role |-> "system", content |-> SYSTEM_PROMPT] >>
           \o StoredBefore
           \o << [role |-> "user", content |-> postReq.message.val] >>
    /\ ~Truthy(postReq.chatId) => StoredBefore = <<>>

\* C32 witness: the provider has been called for an existing chat of two
\* stored messages, with four messages.
C32_Witness ==
  /\ Len(providerCalls) = 1
  /\ Truthy(postReq.chatId)
  /\ Len(StoredBefore) = 2
  /\ Len(providerCalls[1].messages) = 4

\* C39: isValidChatId accepts a candidate exactly when it is longer than
\* 15, with a hyphen or without one and the placeholder included: the
\* recovery from [{id}] returns id when id is longer than 15 and undefined
\* otherwise.
C39_LengthAlone ==
  \A n \in 1..Len(recoveries) : \A t \in IdTexts :
    recoveries[n].content = OnlyId(t) =>
      /\ recoveries[n].result.def <=> Len(t) > 15
      /\ recoveries[n].result.def => recoveries[n].result = Str(t)

\* C39 witness: the recovery from [{id}] has accepted an id of 16 with a
\* hyphen, and one has turned down an id of 15 with a hyphen.
C39_Witness ==
  \E t \in {Hyphenated(15), Hyphenated(16)} :
    /\ Len(recoveries) = 1
    /\ recoveries[1].content = OnlyId(t)
    /\ recoveries[1].result = (IF Len(t) = 16 THEN Str(t) ELSE Undefined)

\* The request was turned down before the provider was resolved: no
\* message, no session user, or the quota reached.
TurnedDownEarly ==
  \/ postResponse.kind = "ChatSDKError"
  \/ /\ postResponse.kind = "json"
     /\ postResponse.status = 400
     /\ postResponse.error = MessageRequiredText

\* C37: POST calls createChat, addMessageToChat or the provider only for a
\* request with a non-empty message, a session with a non-empty user id and
\* a quota not yet reached; createChat is never given the empty user id;
\* and a request turned down for its message, its session or the quota has
\* made no storage or provider call and left the stored chat as it was.
C37_CallsOnlyWhenAdmitted ==
  /\ (storageCalls # <<>> \/ providerCalls # <<>>) =>
       /\ Truthy(postReq.message)
       /\ Truthy(postReq.userId)
       /\ ~postReq.overLimit
  /\ \A n \in 1..Len(storageCalls) :
       storageCalls[n].op = "createChat" =>
         /\ storageCalls[n].userId # <<>>
         /\ storageCalls[n].userId = postReq.userId.val
  /\ TurnedDownEarly =>
       /\ storageCalls = <<>>
       /\ providerCalls = <<>>
       /\ postChat \in StoredChats

\* C37 witness: a request of a signed-in user within the quota has created
\* a chat under the user's id and reached the provider.
C37_Witness ==
  /\ Len(storageCalls) >= 1
  /\ storageCalls[1].op = "createChat"
  /\ storageCalls[1].userId = UserId
  /\ Len(providerCalls) = 1

\* C38: GET /api/chats/[chatId] returns a chat's name and messages only to
\* the chat's owner: a response that carries them went to a requester whose
\* session user id is the chat's user_id.
C38_OnlyOwnerReads ==
  (getResponse.kind = "json" /\ getResponse.status = 200) =>
    /\ Truthy(getSession)
    /\ getSession.val = getStored.user_id

\* For every requester with a user id the check above does hold.
C38_SignedInOnlyOwnerReads ==
  (getResponse.kind = "json" /\ getResponse.status = 200
     /\ Truthy(getSession)) =>
    getSession.val = getStored.user_id

\* How often message m stands in the stored list.
StoredCount(m) ==
  Cardinality({i \in 1..Len(dbMessages) : dbMessages[i] = m})

\* How many calls that have returned appended message m.
AppendedCount(m) ==
  Cardinality({c \in 1..MaxWriters : addPc[c] = "done" /\ addArgs[c] = m})

\* C35: addMessageToChat never loses a message: whatever the interleaving
\* of concurrent calls on one chat, the stored list holds every message a
\* call that has returned appended, as often as it was appended.
C35_NoLostMessage ==
  \A m \in AddMessages : StoredCount(m) >= AppendedCount(m)

\* The completions the user has obtained: the streams handed out and the
\* assistant messages returned.
Completions ==
  Cardinality({n \in 1..Len(providerCalls) :
                 providerCalls[n].fn = "createStreamingCompletion"})
    + Cardinality({n \in 1..Len(storageCalls) :
                     storageCalls[n].role = "assistant"})

\* C36: a user obtains no more than userEntitlements.maxMessagesPerDay
\* completions within 24 hours, whether the requests go to new chats or to
\* stored ones.
C36_CompletionsWithinQuota == Completions <= MaxMessagesPerDay

\* What the check does bound: the chats created within 24 hours.
C36_ChatsWithinQuota == getChatCountByUserId(UserId) <= MaxMessagesPerDay

\* The indices of the chatHistory entries with isStreaming = true.
StreamingEntries == {i \in 1..Len(chatHistory) : chatHistory[i].isStreaming}

\* C33: in every reachable state of useChat at most one chatHistory entry
\* has isStreaming = true, however the handoff, handleSendMessage, the
\* responses and handleStreamingComplete interleave.
C33_OneStreamingEntry == Cardinality(StreamingEntries) <= 1

\* C34: once handleStreamingComplete has been called for the stream of an
\* entry added with isStreaming = true, the entry has isStreaming = false,
\* no stream and the final content, whatever was appended in the meantime.
C34_CompletedEntryFinal ==
  \A s \in 1..Len(handedStreams) :
    handedStreams[s].done =>
      LET entry == chatHistory[handedStreams[s].at] IN
        /\ ~entry.isStreaming
        /\ "stream" \notin DOMAIN entry
        /\ entry.content = handedStreams[s].final

\* When the entry of the stream is still the last one as its stream ends,
\* it is made final.
C34_LastEntryFinal ==
  [][\A s \in 1..Len(handedStreams) :
       (~handedStreams[s].done /\ handedStreams'[s].done
          /\ handedStreams[s].at = Len(chatHistory)
          /\ chatHistory[Len(chatHistory)].isStreaming)
         => /\ ~chatHistory'[handedStreams[s].at].isStreaming
            /\ "stream" \notin DOMAIN chatHistory'[handedStreams[s].at]
            /\ chatHistory'[handedStreams[s].at].content = handedStreams'[s].final]_vars

====
